---- MODULE Spec2Model ----
(***************************************************************************)
(* Model of the OMR decoding core of pServer/models/scan.py: the grouper   *)
(* (group_bubbles_scanned, filter_overlapping_bubbles), the mark resolver  *)
(* (detect_marked_bubbles_scanned), the scorer (score_answers_with_key),   *)
(* the fill analyzer (analyze_bubble_fill_scanned), the pipeline           *)
(* process_omr_image that chains them, and the request handlers            *)
(* process_answer_sheet and batch_process_answer_sheets.                   *)
(*                                                                         *)
(* Conventions.                                                            *)
(*  - A candidate bubble is the tuple (contour, x, y, w, h) of the code,   *)
(*    here the record [contour, x, y, w, h]; the contour is kept by the    *)
(*    two numbers the code derives from it, cv2.contourArea and            *)
(*    cv2.arcLength: [area, perimeter].                                    *)
(*  - A Python float is an IEEE 754 double [neg, m, e], computed with the   *)
(*    code's operations in the code's order, each rounded to nearest. A    *)
(*    cluster centre (an integer or an np.mean) is kept as the rational    *)
(*    [num, den] in lowest terms whose nearest double the code holds.      *)
(*  - Optional values: None is <<>>, a present value v is <<v>>.           *)
(***************************************************************************)
EXTENDS Integers, Sequences, FiniteSets, TLC

VARIABLES
    pc,               \* position of the call being modelled
    image,            \* what the image bytes decode to
    bubble_contours,  \* list of candidates (detect_bubbles_scanned's result)
    num_questions,    \* the num_questions argument
    answer_key,       \* the answer_key argument, a sequence of letters
    rows,             \* list of rows (group_bubbles_scanned's result)
    gray,             \* what the grayscale image shows under each bubble
    marked_answers,   \* list of outcomes (detect_marked_bubbles_scanned's result)
    result,           \* the report (score_answers_with_key's result)
    student_id,       \* the student_id argument, its pieces between '_'
    error,            \* message of the exception raised, "" when none
    request,          \* the HTTP request being handled, its locals and answer
    db                \* the database's collections, None where none is used

vars == <<pc, image, bubble_contours, num_questions, answer_key, student_id,
          rows, gray, marked_answers, result, error, request, db>>

----------------------------------------------------------------------------
(* Program constants, scan.py lines 22-34.                                 *)

NUM_CHOICES == 5
NUM_COLUMNS == 4
ROW_TOLERANCE == 50
COLUMN_TOLERANCE == 150

(* Bounds of the model.                                                    *)

MaxBubbles == 6       \* longest candidate list the grouper is given
MaxQuestions == 5     \* largest num_questions of the grouper and the pipeline
MaxMarkRows == 2      \* most rows the mark resolver is given
MaxScored == 2        \* largest num_questions of the resolver and the scorer
MaxSheetBubbles == 3  \* most bubbles on a sheet fed to the pipeline

----------------------------------------------------------------------------
(* Optional values.                                                        *)

None == <<>>
Some(v) == <<v>>

(* Exact rationals: cluster centres and the comparisons between them.      *)

Abs(n) == IF n < 0 THEN -n ELSE n

Max(a, b) == IF a >= b THEN a ELSE b

Min(a, b) == IF a <= b THEN a ELSE b

RECURSIVE Gcd(_, _)
Gcd(a, b) == IF b = 0 THEN a ELSE Gcd(b, a % b)

Rat(n, d) ==
    LET s == IF d < 0 THEN -1 ELSE 1
        g == Gcd(Abs(n), Abs(d))
    IN  [num |-> (s * n) \div g, den |-> (s * d) \div g]

IntRat(n) == [num |-> n, den |-> 1]

RatAdd(a, b) == Rat(a.num * b.den + b.num * a.den, a.den * b.den)

RatSub(a, b) == Rat(a.num * b.den - b.num * a.den, a.den * b.den)

RatDivInt(a, k) == Rat(a.num, a.den * k)

RatAbs(a) == [num |-> Abs(a.num), den |-> a.den]

RatLess(a, b) == a.num * b.den < b.num * a.den

RECURSIVE SumSeq(_)
SumSeq(s) == IF s = <<>> THEN 0 ELSE Head(s) + SumSeq(Tail(s))

(* np.mean of a non-empty list of integers.                                *)
Mean(s) == Rat(SumSeq(s), Len(s))

(* Python's sorted(s, key=...): a stable sort. Less(a, b) is key(a) <      *)
(* key(b), or key(a) > key(b) under reverse=True, which also keeps the     *)
(* original order of equal keys.                                           *)
StableSort(s, Less(_, _)) ==
    LET n == Len(s)
        rank(i) == Cardinality({j \in 1..n :
                       \/ Less(s[j], s[i])
                       \/ (~Less(s[i], s[j]) /\ j < i)}) + 1
    IN  [k \in 1..n |-> s[CHOOSE i \in 1..n : rank(i) = k]]

(* Python's s[:k] for any integer k.                                       *)
Take(s, k) ==
    LET m == IF k >= 0 THEN Min(k, Len(s)) ELSE Max(0, Len(s) + k)
    IN  SubSeq(s, 1, m)

----------------------------------------------------------------------------
(* IEEE 754 double arithmetic, for the float comparisons whose outcome the *)
(* rounding decides. Mantissas do not fit TLC's integers, so they are kept *)
(* as natural numbers of any size.                                         *)

(* Natural numbers of any size: little-endian sequences of limbs below     *)
(* LimbBase, without high zero limbs; <<>> is zero.                        *)
LimbBase == 2 ^ 15

RECURSIVE BigStrip(_)
BigStrip(a) ==
    IF a = <<>> THEN <<>>
    ELSE IF a[Len(a)] = 0 THEN BigStrip(SubSeq(a, 1, Len(a) - 1))
    ELSE a

RECURSIVE BigOfInt(_)
BigOfInt(n) ==
    IF n = 0 THEN <<>> ELSE <<n % LimbBase>> \o BigOfInt(n \div LimbBase)

(* -1, 0 or 1 as a is below, equal to or above b.                          *)
RECURSIVE BigCmpFrom(_, _, _)
BigCmpFrom(a, b, i) ==
    IF i = 0 THEN 0
    ELSE IF a[i] < b[i] THEN -1
    ELSE IF a[i] > b[i] THEN 1
    ELSE BigCmpFrom(a, b, i - 1)

BigCmp(a, b) ==
    IF Len(a) < Len(b) THEN -1
    ELSE IF Len(a) > Len(b) THEN 1
    ELSE BigCmpFrom(a, b, Len(a))

RECURSIVE BigAddCarry(_, _, _)
BigAddCarry(a, b, carry) ==
    IF a = <<>> /\ b = <<>>
    THEN (IF carry = 0 THEN <<>> ELSE <<carry>>)
    ELSE LET x == IF a = <<>> THEN 0 ELSE a[1]
             y == IF b = <<>> THEN 0 ELSE b[1]
             s == x + y + carry
         IN  <<s % LimbBase>> \o
             BigAddCarry(IF a = <<>> THEN <<>> ELSE Tail(a),
                         IF b = <<>> THEN <<>> ELSE Tail(b), s \div LimbBase)

BigAdd(a, b) == BigAddCarry(a, b, 0)

(* a - b for a >= b.                                                       *)
RECURSIVE BigSubBorrow(_, _, _)
BigSubBorrow(a, b, borrow) ==
    IF a = <<>> THEN <<>>
    ELSE LET y == IF b = <<>> THEN 0 ELSE b[1]
             d == a[1] - y - borrow
         IN  <<d % LimbBase>> \o
             BigSubBorrow(Tail(a), IF b = <<>> THEN <<>> ELSE Tail(b),
                          IF d < 0 THEN 1 ELSE 0)

BigSub(a, b) == BigStrip(BigSubBorrow(a, b, 0))

(* a * k for 0 <= k <= LimbBase.                                           *)
RECURSIVE BigMulSmallCarry(_, _, _)
BigMulSmallCarry(a, k, carry) ==
    IF a = <<>> THEN BigOfInt(carry)
    ELSE LET p == a[1] * k + carry
         IN  <<p % LimbBase>> \o BigMulSmallCarry(Tail(a), k, p \div LimbBase)

BigMulSmall(a, k) == IF k = 0 THEN <<>> ELSE BigMulSmallCarry(a, k, 0)

BigShiftLimbs(a, n) ==
    IF a = <<>> THEN <<>> ELSE [i \in 1..n |-> 0] \o a

RECURSIVE BigMul(_, _)
BigMul(a, b) ==
    IF b = <<>> \/ a = <<>> THEN <<>>
    ELSE BigAdd(BigMulSmall(a, b[1]), BigShiftLimbs(BigMul(a, Tail(b)), 1))

(* a * 2^k                                                                 *)
BigShl(a, k) ==
    BigShiftLimbs(BigMulSmall(a, 2 ^ (k % 15)), k \div 15)

(* floor(a / k) for 0 < k <= LimbBase, from the high limb down.            *)
RECURSIVE BigDivSmallFrom(_, _, _, _)
BigDivSmallFrom(a, k, i, rem) ==
    IF i = 0 THEN <<>>
    ELSE LET cur == rem * LimbBase + a[i]
         IN  BigDivSmallFrom(a, k, i - 1, cur % k) \o <<cur \div k>>

BigDivSmall(a, k) == BigStrip(BigDivSmallFrom(a, k, Len(a), 0))

(* floor(a / 2^k)                                                          *)
BigShr(a, k) ==
    LET limbs == k \div 15
    IN  IF limbs >= Len(a) THEN <<>>
        ELSE BigDivSmall(SubSeq(a, limbs + 1, Len(a)), 2 ^ (k % 15))

(* a mod k for 0 < k <= LimbBase, from the high limb down.                 *)
RECURSIVE BigModSmallFrom(_, _, _, _)
BigModSmallFrom(a, k, i, rem) ==
    IF i = 0 THEN rem
    ELSE BigModSmallFrom(a, k, i - 1, (rem * LimbBase + a[i]) % k)

BigModSmall(a, k) == BigModSmallFrom(a, k, Len(a), 0)

(* The number of zero bits below the lowest one bit of n > 0, of a # <<>>. *)
RECURSIVE IntTrailingZeros(_)
IntTrailingZeros(n) == IF n % 2 = 1 THEN 0 ELSE 1 + IntTrailingZeros(n \div 2)

RECURSIVE BigTrailingZeros(_)
BigTrailingZeros(a) ==
    IF a[1] = 0 THEN 15 + BigTrailingZeros(Tail(a))
    ELSE IntTrailingZeros(a[1])

RECURSIVE IntBitLen(_)
IntBitLen(n) == IF n = 0 THEN 0 ELSE 1 + IntBitLen(n \div 2)

BigBitLen(a) ==
    IF a = <<>> THEN 0 ELSE 15 * (Len(a) - 1) + IntBitLen(a[Len(a)])

BigBit(a, i) ==
    IF i \div 15 >= Len(a) THEN 0
    ELSE (a[i \div 15 + 1] \div (2 ^ (i % 15))) % 2

(* The largest d in lo..hi with b * d <= r, by bisection.                  *)
RECURSIVE BigDigit(_, _, _, _)
BigDigit(r, b, lo, hi) ==
    IF lo = hi THEN lo
    ELSE IF BigCmp(BigMulSmall(b, (lo + hi + 1) \div 2), r) <= 0
         THEN BigDigit(r, b, (lo + hi + 1) \div 2, hi)
         ELSE BigDigit(r, b, lo, (lo + hi + 1) \div 2 - 1)

(* One step of long division: the digit d joins the quotient q and leaves  *)
(* the remainder r2 - b * d.                                               *)
BigDivPut(q, r2, b, d) ==
    <<IF q = <<>> THEN BigOfInt(d) ELSE <<d>> \o q,
      BigSub(r2, BigMulSmall(b, d))>>

BigDivStep(above, limb, b, r2) ==
    BigDivPut(above[1], r2, b, BigDigit(r2, b, 0, LimbBase - 1))

(* <<floor(n / b), n mod b>> for b > 0 and n the limbs of a from limb i    *)
(* up, by long division from the highest limb down.                        *)
BigDivLimb(above, limb, b) ==
    BigDivStep(above, limb, b,
               BigStrip(BigAdd(BigShiftLimbs(above[2], 1), BigOfInt(limb))))

RECURSIVE BigDivModAbove(_, _, _)
BigDivModAbove(a, b, i) ==
    IF i > Len(a) THEN <<<<>>, <<>>>>
    ELSE BigDivLimb(BigDivModAbove(a, b, i + 1), a[i], b)

BigDivMod(a, b) == BigDivModAbove(a, b, 1)

(* An IEEE 754 double: (-1)^neg * m * 2^e with 2^52 <= m < 2^53, or m = 0. *)
Float(neg, m, e) == [neg |-> neg, m |-> m, e |-> e]

FloatZero == Float(FALSE, <<>>, 0)

(* The double of mantissa m, or of 2^52 when rounding carried m to 2^53.   *)
FloatPack(neg, m, e) ==
    IF BigBitLen(m) > 53 THEN Float(neg, BigShr(m, 1), e + 1)
    ELSE Float(neg, m, e)

(* Round to nearest, ties to even: q holds the high 53 bits of n, rem the  *)
(* k bits below them; sticky says the exact value lies above n.            *)
FloatRoundUp(q, rem, k, sticky) ==
    LET c == BigCmp(rem, BigShl(<<1>>, k - 1))
    IN  c > 0 \/ (c = 0 /\ (sticky \/ BigBit(q, 0) = 1))

FloatRoundCut(neg, n, e, sticky, k, q) ==
    FloatPack(neg,
              IF FloatRoundUp(q, BigSub(n, BigShl(q, k)), k, sticky)
              THEN BigAdd(q, <<1>>) ELSE q,
              e + k)

FloatRoundBits(neg, n, e, sticky, k) ==
    IF k <= 0 THEN Float(neg, BigShl(n, -k), e + k)
    ELSE FloatRoundCut(neg, n, e, sticky, k, BigShr(n, k))

(* The double nearest the exact value, which lies in [n, n + 1) * 2^e and  *)
(* above n * 2^e exactly when sticky.                                      *)
FloatRound(neg, n, e, sticky) ==
    IF n = <<>> THEN FloatZero
    ELSE FloatRoundBits(neg, n, e, sticky, BigBitLen(n) - 53)

FloatOfInt(n) ==
    FloatRound(n < 0, BigOfInt(IF n < 0 THEN -n ELSE n), 0, FALSE)

FloatNeg(a) == IF a.m = <<>> THEN a ELSE Float(~a.neg, a.m, a.e)

FloatAbs(a) == Float(FALSE, a.m, a.e)

FloatMul(a, b) ==
    IF a.m = <<>> \/ b.m = <<>> THEN FloatZero
    ELSE FloatRound(a.neg # b.neg, BigMul(a.m, b.m), a.e + b.e, FALSE)

FloatQuotient(neg, qr, e) == FloatRound(neg, qr[1], e, qr[2] # <<>>)

(* a / b for b = d * 2^t with d one limb: short division by d.             *)
FloatDivSmall(a, b, n, d, t) ==
    FloatRound(a.neg # b.neg, BigDivSmall(n, d[1]), a.e - b.e - t - 56,
               BigModSmall(n, d[1]) # 0)

FloatDivOdd(a, b, d, t) ==
    IF Len(d) = 1
    THEN FloatDivSmall(a, b, BigShl(a.m, 56), d, t)
    ELSE FloatQuotient(a.neg # b.neg, BigDivMod(BigShl(a.m, 56), b.m),
                       a.e - b.e - 56)

FloatDivShifted(a, b, t) == FloatDivOdd(a, b, BigShr(b.m, t), t)

(* a / b for b # 0: 56 more bits of quotient than the mantissa holds.      *)
FloatDiv(a, b) ==
    IF a.m = <<>> THEN FloatZero
    ELSE FloatDivShifted(a, b, BigTrailingZeros(b.m))

(* (-1)^aneg * x * 2^e + (-1)^bneg * y * 2^e, rounded.                     *)
FloatAddAligned(aneg, x, bneg, y, e) ==
    IF aneg = bneg THEN FloatRound(aneg, BigAdd(x, y), e, FALSE)
    ELSE IF BigCmp(x, y) = 0 THEN FloatZero
    ELSE IF BigCmp(x, y) > 0 THEN FloatRound(aneg, BigSub(x, y), e, FALSE)
    ELSE FloatRound(bneg, BigSub(y, x), e, FALSE)

FloatAdd(a, b) ==
    IF a.m = <<>> THEN b
    ELSE IF b.m = <<>> THEN a
    ELSE LET e == IF a.e < b.e THEN a.e ELSE b.e
         IN  FloatAddAligned(a.neg, BigShl(a.m, a.e - e),
                             b.neg, BigShl(b.m, b.e - e), e)

FloatSub(a, b) == FloatAdd(a, FloatNeg(b))

FloatLess(a, b) ==
    LET mag == IF a.m = <<>> THEN (IF b.m = <<>> THEN 0 ELSE -1)
               ELSE IF b.m = <<>> THEN 1
               ELSE IF a.e # b.e THEN (IF a.e < b.e THEN -1 ELSE 1)
               ELSE BigCmp(a.m, b.m)
    IN  IF a.neg # b.neg THEN a.neg
        ELSE IF a.neg THEN mag > 0
        ELSE mag < 0

(* The double nearest the rational r: what np.mean returns for the sum and *)
(* count r is the quotient of, and r itself when r is an integer.          *)
FloatOfRat(r) ==
    IF r.den = 1 THEN FloatOfInt(r.num)
    ELSE FloatDiv(FloatOfInt(r.num), FloatOfInt(r.den))

(* The literal 0.1: the double nearest 1/10.                               *)
FloatTenth == FloatDiv(FloatOfInt(1), FloatOfInt(10))

(* np.pi = 0x1.921FB54442D18p+1.                                           *)
FloatPi == Float(FALSE, <<11544, 10376, 2029, 201>>, -51)

----------------------------------------------------------------------------
(* filter_overlapping_bubbles, scan.py lines 284-328.                      *)

(* The real number the score of lines 293-301 approximates, divided by the *)
(* 4*pi every score shares: area / perimeter^2 * 1 / (|w/h - 1| + 0.1).    *)
score_ratio(bubble) ==
    IF bubble.contour.perimeter > 0
    THEN Rat(bubble.contour.area * 10 * bubble.h,
             bubble.contour.perimeter * bubble.contour.perimeter
                 * (10 * Abs(bubble.w - bubble.h) + bubble.h))
    ELSE IntRat(0)

(* Lines 293-301: the score as the double the code computes,               *)
(* 4 * np.pi * area / (perimeter * perimeter)                              *)
(*     * (1.0 / (abs(w / float(h) - 1.0) + 0.1)), and 0 without perimeter. *)
bubble_score(bubble) ==
    IF bubble.contour.perimeter > 0
    THEN FloatMul(
             FloatDiv(FloatMul(FloatMul(FloatOfInt(4), FloatPi),
                               FloatOfInt(bubble.contour.area)),
                      FloatOfInt(bubble.contour.perimeter
                                     * bubble.contour.perimeter)),
             FloatDiv(FloatOfInt(1),
                      FloatAdd(FloatAbs(FloatSub(
                                   FloatDiv(FloatOfInt(bubble.w),
                                            FloatOfInt(bubble.h)),
                                   FloatOfInt(1))),
                               FloatTenth)))
    ELSE FloatZero

(* Line 305 compares the scores: bubble_score(a) < bubble_score(b). Real   *)
(* scores that differ, differ by more than the roundings of lines 297-299  *)
(* can add up to (their cross products fit 31 bits, each rounding is below *)
(* 2^-52), so their order is the doubles' order; equal real scores of      *)
(* unlike bubbles are told apart by the doubles themselves.                *)
score_less(a, b) ==
    IF a.contour = b.contour /\ a.w = b.w /\ a.h = b.h THEN FALSE
    ELSE IF score_ratio(a) # score_ratio(b)
         THEN RatLess(score_ratio(a), score_ratio(b))
         ELSE FloatLess(bubble_score(a), bubble_score(b))

(* Lines 317-321: the overlap exceeds 30% of the smaller bounding box.     *)
is_overlapping(bubble, existing_bubble) ==
    LET overlap_x == Max(0, Min(bubble.x + bubble.w,
                                existing_bubble.x + existing_bubble.w)
                            - Max(bubble.x, existing_bubble.x))
        overlap_y == Max(0, Min(bubble.y + bubble.h,
                                existing_bubble.y + existing_bubble.h)
                            - Max(bubble.y, existing_bubble.y))
        overlap_area == overlap_x * overlap_y
    IN  10 * overlap_area > 3 * Min(bubble.w * bubble.h,
                                    existing_bubble.w * existing_bubble.h)

(* pick_bubbles without the overlap test of lines 314-326.                 *)
RECURSIVE pick_bubbles_overlapping(_, _)
pick_bubbles_overlapping(by_score, filtered) ==
    IF by_score = <<>> \/ Len(filtered) >= NUM_CHOICES
    THEN filtered
    ELSE pick_bubbles_overlapping(Tail(by_score),
                                  Append(filtered, Head(by_score)))

(* The greedy loop of lines 307-326 over the bubbles in score order.       *)
RECURSIVE pick_bubbles(_, _)
pick_bubbles(by_score, filtered) ==
    IF by_score = <<>> \/ Len(filtered) >= NUM_CHOICES
    THEN filtered
    ELSE LET bubble == Head(by_score)
         IN  IF \E i \in 1..Len(filtered) : is_overlapping(bubble, filtered[i])
             THEN pick_bubbles(Tail(by_score), filtered)
             ELSE pick_bubbles(Tail(by_score), Append(filtered, bubble))

filter_overlapping_bubbles(bubbles) ==
    IF Len(bubbles) <= NUM_CHOICES
    THEN bubbles
    ELSE LET by_score == StableSort(bubbles, LAMBDA a, b : score_less(b, a))
         IN  Take(pick_bubbles(by_score, <<>>), NUM_CHOICES)

----------------------------------------------------------------------------
(* group_bubbles_scanned, scan.py lines 167-282.                           *)

(* Lines 173-175.                                                          *)
questions_per_column(n) ==
    (n \div NUM_COLUMNS) + (IF n % NUM_COLUMNS # 0 THEN 1 ELSE 0)

(* Lines 184 and 197: x + w // 2.                                          *)
bubble_center_x(bubble) == bubble.x + (bubble.w \div 2)

(* Lines 219 and 233: y + h // 2.                                          *)
bubble_center_y(bubble) == bubble.y + (bubble.h \div 2)

(* Lines 188 and 225: abs(center - entry), the entry an int or np.mean's   *)
(* double, as the double the code computes.                                *)
float_distance(c, center) ==
    FloatAbs(FloatSub(FloatOfInt(c), FloatOfRat(center)))

(* Lines 189 and 226, distance < tolerance. The real distance and the real *)
(* tolerance decide when they differ (the roundings are far smaller than   *)
(* any difference of theirs); when they are equal the doubles decide.      *)
within_tolerance(c, center, tolerance, float_tolerance) ==
    IF RatAbs(RatSub(IntRat(c), center)) # tolerance
    THEN RatLess(RatAbs(RatSub(IntRat(c), center)), tolerance)
    ELSE FloatLess(float_distance(c, center), float_tolerance)

(* Lines 189 and 226, distance < min_distance, for the entries a and b:    *)
(* the real distances when they differ, the doubles when they are equal.   *)
distance_less(c, a, b) ==
    IF a = b THEN FALSE
    ELSE IF RatAbs(RatSub(IntRat(c), a)) # RatAbs(RatSub(IntRat(c), b))
         THEN RatLess(RatAbs(RatSub(IntRat(c), a)),
                      RatAbs(RatSub(IntRat(c), b)))
         ELSE FloatLess(float_distance(c, a), float_distance(c, b))

(* Lines 186-193 and 221-229: the loop over the entries from index i on,   *)
(* best the index kept so far (0 for None; min_distance is the distance of *)
(* the entry at best). The result is the first entry at the least distance *)
(* among those strictly within the tolerance, 0 when there is none. The    *)
(* tolerance comes as the real number and as the double the code holds.    *)
RECURSIVE best_match_from(_, _, _, _, _, _)
best_match_from(centers, c, tolerance, float_tolerance, i, best) ==
    IF i > Len(centers) THEN best
    ELSE IF /\ within_tolerance(c, centers[i], tolerance, float_tolerance)
            /\ (best = 0 \/ distance_less(c, centers[i], centers[best]))
         THEN best_match_from(centers, c, tolerance, float_tolerance, i + 1, i)
         ELSE best_match_from(centers, c, tolerance, float_tolerance, i + 1,
                              best)

best_match(centers, c, tolerance, float_tolerance) ==
    best_match_from(centers, c, tolerance, float_tolerance, 1, 0)

(* Lines 195-203: the bubble joins column m, whose center_x becomes the    *)
(* mean of its bubbles' centers, or opens a column when m is 0.            *)
join_column(columns, bubble, m) ==
    IF m # 0
    THEN LET joined == Append(columns[m].bubbles, bubble)
         IN  [columns EXCEPT ![m] =
                 [center_x |-> Mean([i \in 1..Len(joined) |->
                                        bubble_center_x(joined[i])]),
                  bubbles |-> joined]]
    ELSE Append(columns, [center_x |-> IntRat(bubble_center_x(bubble)),
                          bubbles |-> <<bubble>>])

(* Phase 1, lines 181-203: the loop over the bubbles sorted by x.          *)
RECURSIVE cluster_columns(_, _)
cluster_columns(sorted_by_x, columns) ==
    IF sorted_by_x = <<>> THEN columns
    ELSE cluster_columns(Tail(sorted_by_x),
             join_column(columns, Head(sorted_by_x),
                 best_match([i \in 1..Len(columns) |-> columns[i].center_x],
                            bubble_center_x(Head(sorted_by_x)),
                            IntRat(COLUMN_TOLERANCE),
                            FloatOfInt(COLUMN_TOLERANCE))))

(* select_columns without the sort by center_x of line 206.                *)
select_columns_by_count(columns) ==
    Take(StableSort(columns,
             LAMBDA a, b : Len(a.bubbles) > Len(b.bubbles)), NUM_COLUMNS)

(* Lines 205-206: the NUM_COLUMNS fullest columns, left to right.          *)
select_columns(columns) ==
    StableSort(
        Take(StableSort(columns,
                 LAMBDA a, b : Len(a.bubbles) > Len(b.bubbles)), NUM_COLUMNS),
        LAMBDA a, b : RatLess(a.center_x, b.center_x))

(* The real number line 223 approximates.                                  *)
adaptive_tolerance_exact(n_rows, qpc) ==
    Rat(ROW_TOLERANCE * (10 * qpc + n_rows), 10 * qpc)

(* Line 223: ROW_TOLERANCE * (1 + 0.1 * len(rows) / questions_per_column)  *)
(* as the double the code computes, 55.00000000000001 for one row and one  *)
(* question per column.                                                    *)
adaptive_tolerance(n_rows, qpc) ==
    FloatMul(FloatOfInt(ROW_TOLERANCE),
             FloatAdd(FloatOfInt(1),
                      FloatDiv(FloatMul(FloatTenth, FloatOfInt(n_rows)),
                               FloatOfInt(qpc))))

(* Lines 231-240: the bubble joins row m, whose center_y becomes the mean  *)
(* of its bubbles' centers, or opens a row when m is 0.                    *)
join_row(rws, bubble, col_idx, m) ==
    IF m # 0
    THEN LET joined == Append(rws[m].bubbles, bubble)
         IN  [rws EXCEPT ![m] =
                 [center_y |-> Mean([i \in 1..Len(joined) |->
                                        bubble_center_y(joined[i])]),
                  bubbles |-> joined,
                  column |-> rws[m].column]]
    ELSE Append(rws, [center_y |-> IntRat(bubble_center_y(bubble)),
                      bubbles |-> <<bubble>>,
                      column |-> col_idx])

(* Phase 2, lines 216-240: the loop over the column's bubbles sorted by y. *)
RECURSIVE cluster_rows(_, _, _, _)
cluster_rows(sorted_bubbles, rws, col_idx, qpc) ==
    IF sorted_bubbles = <<>> THEN rws
    ELSE cluster_rows(Tail(sorted_bubbles),
             join_row(rws, Head(sorted_bubbles), col_idx,
                 best_match([i \in 1..Len(rws) |-> rws[i].center_y],
                            bubble_center_y(Head(sorted_bubbles)),
                            adaptive_tolerance_exact(Len(rws), qpc),
                            adaptive_tolerance(Len(rws), qpc))),
             col_idx, qpc)

(* The double a row's center_y holds. The center of a row with bubbles is  *)
(* kept as the integer or mean whose nearest double it is (lines 239 and   *)
(* 235), the center of a placeholder row as the double of line 259.        *)
center_double(center_y) ==
    IF "num" \in DOMAIN center_y THEN FloatOfRat(center_y) ELSE center_y

(* center_y of a below center_y of b, as lines 242, 251 and 279 compare    *)
(* them. Two integers or means are in the order of their doubles.          *)
center_less(a, b) ==
    IF "num" \in DOMAIN a /\ "num" \in DOMAIN b THEN RatLess(a, b)
    ELSE FloatLess(center_double(a), center_double(b))

sort_rows_by_y(rws) ==
    StableSort(rws, LAMBDA a, b : center_less(a.center_y, b.center_y))

(* current_column_questions with the questions of the last column itself  *)
(* subtracted at line 246: (col_idx + 1) * questions_per_column.           *)
current_column_questions_past_last(col_idx, n) ==
    IF col_idx = NUM_COLUMNS - 1
    THEN Max(1, n - (col_idx + 1) * questions_per_column(n))
    ELSE questions_per_column(n)

(* Lines 244-247: the number of rows the column is to end with.            *)
current_column_questions(col_idx, n) ==
    IF col_idx = NUM_COLUMNS - 1
    THEN Max(1, n - col_idx * questions_per_column(n))
    ELSE questions_per_column(n)

(* Lines 249-251: the rows with the most bubbles, back in y order.         *)
trim_rows(rws, target) ==
    IF Len(rws) > target
    THEN sort_rows_by_y(
             Take(StableSort(rws,
                      LAMBDA a, b : Len(a.bubbles) > Len(b.bubbles)), target))
    ELSE rws

(* avg_row_height as the constant 30.                                      *)
avg_row_height_fixed(rws) == FloatOfInt(30)

(* Lines 255-256: the average gap of the rows so far, 30 for a single row. *)
avg_row_height(rws) ==
    IF Len(rws) > 1
    THEN FloatDiv(FloatSub(center_double(rws[Len(rws)].center_y),
                           center_double(rws[1].center_y)),
                  FloatOfInt(Max(1, Len(rws) - 1)))
    ELSE FloatOfInt(30)

(* Lines 254-259: the center_y of the next placeholder row, in doubles.    *)
estimated_y(rws) ==
    IF rws # <<>>
    THEN FloatAdd(center_double(rws[Len(rws)].center_y), avg_row_height(rws))
    ELSE FloatOfInt(100)

(* Lines 253-266: placeholder rows until the target is reached.            *)
RECURSIVE pad_rows(_, _, _)
pad_rows(rws, target, col_idx) ==
    IF Len(rws) >= target THEN rws
    ELSE pad_rows(Append(rws, [center_y |-> estimated_y(rws),
                               bubbles |-> <<>>,
                               column |-> col_idx]),
                  target, col_idx)

(* normalize_row without the call of lines 274-275.                        *)
normalize_row_unfiltered(row) ==
    [row EXCEPT !.bubbles = StableSort(row.bubbles, LAMBDA a, b : a.x < b.x)]

(* Lines 268-275: each row's bubbles by x, an overfull row filtered.       *)
normalize_row(row) ==
    LET by_x == StableSort(row.bubbles, LAMBDA a, b : a.x < b.x)
    IN  [row EXCEPT !.bubbles = IF Len(by_x) > NUM_CHOICES
                                THEN filter_overlapping_bubbles(by_x)
                                ELSE by_x]

(* Lines 268-275 for every row of the column.                              *)
normalize_rows(rws) == [i \in 1..Len(rws) |-> normalize_row(rws[i])]

(* Lines 211-277: the rows of one column, col_idx counted from 0.          *)
column_rows(column, col_idx, n) ==
    LET sorted_bubbles == StableSort(column.bubbles, LAMBDA a, b : a.y < b.y)
        clustered == sort_rows_by_y(
            cluster_rows(sorted_bubbles, <<>>, col_idx, questions_per_column(n)))
        target == current_column_questions(col_idx, n)
    IN  normalize_rows(pad_rows(trim_rows(clustered, target), target, col_idx))

RECURSIVE all_column_rows(_, _, _)
all_column_rows(columns, k, n) ==
    IF k > Len(columns) THEN <<>>
    ELSE column_rows(columns[k], k - 1, n) \o all_column_rows(columns, k + 1, n)

(* Line 223 divides by questions_per_column: ZeroDivisionError when it is  *)
(* 0 and there is a bubble to place.                                       *)
group_raises(contours, n) ==
    contours # <<>> /\ questions_per_column(n) = 0

group_bubbles_scanned(contours, n) ==
    IF contours = <<>> THEN <<>>
    ELSE LET sorted_by_x == StableSort(contours, LAMBDA a, b : a.x < b.x)
             columns == select_columns(cluster_columns(sorted_by_x, <<>>))
         IN  StableSort(all_column_rows(columns, 1, n),
                 LAMBDA a, b : \/ a.column < b.column
                               \/ (a.column = b.column
                                   /\ center_less(a.center_y, b.center_y)))

----------------------------------------------------------------------------
(* analyze_bubble_fill_scanned, scan.py lines 330-355.                     *)
(* The grayscale image is kept by what the analyzer measures under each    *)
(* bubble: gray[<<x, y>>] = [size, pixels, fill, valid], the size of the   *)
(* crop gray[y:y+h, x:x+w], the number of its pixels inside the contour,   *)
(* calculate_fill_ratio_scanned's ratio in thousandths and                 *)
(* is_valid_fill_pattern_scanned's verdict.                                *)

BLANK == "BLANK"
FILLED == "FILLED"
PARTIAL == "PARTIAL"
INVALID == "INVALID"

FILL_THRESHOLD == 600          \* 0.60 in thousandths
PARTIAL_FILL_THRESHOLD == 250  \* 0.25 in thousandths

Ink(size, pixels, fill, valid) ==
    [size |-> size, pixels |-> pixels, fill |-> fill, valid |-> valid]

(* classify_fill with the comparisons of lines 350 and 352 not strict.     *)
classify_fill_inclusive(ink) ==
    IF ink.size = 0 THEN <<INVALID, 0>>
    ELSE IF ink.pixels = 0 THEN <<INVALID, 0>>
    ELSE IF ~ink.valid THEN <<INVALID, ink.fill>>
    ELSE IF ink.fill >= FILL_THRESHOLD THEN <<FILLED, ink.fill>>
    ELSE IF ink.fill >= PARTIAL_FILL_THRESHOLD THEN <<PARTIAL, ink.fill>>
    ELSE <<BLANK, ink.fill>>

(* Lines 337-355.                                                          *)
classify_fill(ink) ==
    IF ink.size = 0 THEN <<INVALID, 0>>
    ELSE IF ink.pixels = 0 THEN <<INVALID, 0>>
    ELSE IF ~ink.valid THEN <<INVALID, ink.fill>>
    ELSE IF ink.fill > FILL_THRESHOLD THEN <<FILLED, ink.fill>>
    ELSE IF ink.fill > PARTIAL_FILL_THRESHOLD THEN <<PARTIAL, ink.fill>>
    ELSE <<BLANK, ink.fill>>

analyze_bubble_fill_scanned(g, bubble) == classify_fill(g[<<bubble.x, bubble.y>>])

----------------------------------------------------------------------------
(* detect_marked_bubbles_scanned, scan.py lines 403-459.                   *)

(* Lines 418-434: the states of the row's first NUM_CHOICES bubbles,       *)
(* BLANK appended up to NUM_CHOICES.                                       *)
row_bubble_states(g, row) ==
    [j \in 1..NUM_CHOICES |->
        IF j <= Len(row.bubbles)
        THEN analyze_bubble_fill_scanned(g, row.bubbles[j])[1]
        ELSE BLANK]

(* The list [j for j, state in enumerate(bubble_states) if state == s],    *)
(* j counted from 0.                                                       *)
RECURSIVE indices_of(_, _, _)
indices_of(bubble_states, s, j) ==
    IF j >= Len(bubble_states) THEN <<>>
    ELSE (IF bubble_states[j + 1] = s THEN <<j>> ELSE <<>>)
             \o indices_of(bubble_states, s, j + 1)

(* resolve_states with the lone-partial branch of lines 446-448 left out.  *)
resolve_states_no_lone_partial(bubble_states) ==
    LET filled_indices == indices_of(bubble_states, FILLED, 0)
        partial_indices == indices_of(bubble_states, PARTIAL, 0)
    IN  IF Len(filled_indices) = 1 THEN Some(filled_indices[1])
        ELSE IF Len(filled_indices) > 1 THEN Some(-2)
        ELSE IF Len(partial_indices) > 1 THEN Some(-3)
        ELSE None

(* resolve_states taking a lone partial fill for an ambiguous one.         *)
resolve_states_lone_partial_ambiguous(bubble_states) ==
    LET filled_indices == indices_of(bubble_states, FILLED, 0)
        partial_indices == indices_of(bubble_states, PARTIAL, 0)
    IN  IF Len(filled_indices) = 1 THEN Some(filled_indices[1])
        ELSE IF Len(filled_indices) > 1 THEN Some(-2)
        ELSE IF Len(partial_indices) >= 1 THEN Some(-3)
        ELSE None

(* Lines 436-454: the outcome of one row from its padded states.           *)
resolve_states(bubble_states) ==
    LET filled_indices == indices_of(bubble_states, FILLED, 0)
        partial_indices == indices_of(bubble_states, PARTIAL, 0)
    IN  IF Len(filled_indices) = 1 THEN Some(filled_indices[1])
        ELSE IF Len(filled_indices) > 1 THEN Some(-2)
        ELSE IF Len(filled_indices) = 0 /\ Len(partial_indices) = 1
             THEN Some(partial_indices[1])
        ELSE IF Len(partial_indices) > 1 THEN Some(-3)
        ELSE None

(* Lines 413-454: one pass of the loop body.                               *)
resolve_row(g, row) ==
    IF Len(row.bubbles) = 0 THEN None
    ELSE resolve_states(row_bubble_states(g, row))

(* Lines 405-409: the loop over the rows, left at i >= num_questions.      *)
RECURSIVE mark_loop(_, _, _, _)
mark_loop(g, rws, i, n) ==
    IF i >= Len(rws) \/ i >= n THEN <<>>
    ELSE <<resolve_row(g, rws[i + 1])>> \o mark_loop(g, rws, i + 1, n)

(* Lines 456-457: None appended up to num_questions.                       *)
pad_none(marked, n) ==
    marked \o [k \in 1..Max(0, n - Len(marked)) |-> None]

detect_marked_bubbles_scanned(g, rws, n) ==
    Take(pad_none(mark_loop(g, rws, 0, n), n), n)

----------------------------------------------------------------------------
(* score_answers_with_key, scan.py lines 461-542.                          *)

(* Characters by code point: CharTable[1] is chr(62).                      *)
CharTable == <<">", "?", "@", "A", "B", "C", "D", "E", "F", "G">>

Ord(c) == 61 + (CHOOSE i \in 1..Len(CharTable) : CharTable[i] = c)

Chr(k) == CharTable[k - 61]

(* Lines 464-472: the counters and the list before the loop.               *)
score_start ==
    [score |-> 0, attempted |-> 0, multiple_marks |-> 0, partial_marks |-> 0,
     wrong_answers |-> 0, blank_answers |-> 0, invalid_answers |-> 0,
     detailed_responses |-> <<>>]

(* Line 481: chr(65 + marked) for a choice index, else None.               *)
marked_letter(marked) ==
    IF marked # None /\ marked[1] >= 0 THEN Some(Chr(65 + marked[1])) ELSE None

(* score_status comparing with the key's index counted from 1.            *)
score_status_index_from_one(marked, correct_index) ==
    IF marked = Some(correct_index + 1) THEN "correct"
    ELSE IF marked = Some(-2) THEN "multiple"
    ELSE IF marked = Some(-3) THEN "partial"
    ELSE IF marked = None THEN "blank"
    ELSE IF marked[1] >= 0 THEN "wrong"
    ELSE "invalid"

(* Lines 487-509: the branch the if-chain takes, by the status it sets.    *)
score_status(marked, correct_index) ==
    IF marked = Some(correct_index) THEN "correct"
    ELSE IF marked = Some(-2) THEN "multiple"
    ELSE IF marked = Some(-3) THEN "partial"
    ELSE IF marked = None THEN "blank"
    ELSE IF marked[1] >= 0 THEN "wrong"
    ELSE "invalid"

(* score_update whose branch `skipped` leaves attempted as it is.          *)
score_update_unattempted(acc, status, response_data, skipped) ==
    LET entry == [response_data EXCEPT !.status = status,
                                       !.is_correct = (status = "correct")]
        bump == IF status = skipped THEN 0 ELSE 1
        counted ==
            CASE status = "correct" ->
                     [acc EXCEPT !.score = @ + 1, !.attempted = @ + bump]
              [] status = "multiple" ->
                     [acc EXCEPT !.multiple_marks = @ + 1, !.attempted = @ + bump,
                                 !.invalid_answers = @ + 1]
              [] status = "partial" ->
                     [acc EXCEPT !.partial_marks = @ + 1, !.attempted = @ + bump,
                                 !.invalid_answers = @ + 1]
              [] status = "blank" ->
                     [acc EXCEPT !.blank_answers = @ + 1]
              [] status = "wrong" ->
                     [acc EXCEPT !.wrong_answers = @ + 1, !.attempted = @ + bump]
              [] OTHER ->
                     [acc EXCEPT !.invalid_answers = @ + 1, !.attempted = @ + bump]
    IN  [counted EXCEPT !.detailed_responses = Append(@, entry)]

(* score_update with the partial branch missing attempted += 1.            *)
score_update_partial_unattempted(acc, status, response_data) ==
    score_update_unattempted(acc, status, response_data, "partial")

(* score_update with the wrong branch missing attempted += 1.              *)
score_update_wrong_unattempted(acc, status, response_data) ==
    score_update_unattempted(acc, status, response_data, "wrong")

(* Lines 488-514: what the branch does to the counters and the entry.      *)
score_update(acc, status, response_data) ==
    LET entry == [response_data EXCEPT !.status = status,
                                       !.is_correct = (status = "correct")]
        counted ==
            CASE status = "correct" ->
                     [acc EXCEPT !.score = @ + 1, !.attempted = @ + 1]
              [] status = "multiple" ->
                     [acc EXCEPT !.multiple_marks = @ + 1, !.attempted = @ + 1,
                                 !.invalid_answers = @ + 1]
              [] status = "partial" ->
                     [acc EXCEPT !.partial_marks = @ + 1, !.attempted = @ + 1,
                                 !.invalid_answers = @ + 1]
              [] status = "blank" ->
                     [acc EXCEPT !.blank_answers = @ + 1]
              [] status = "wrong" ->
                     [acc EXCEPT !.wrong_answers = @ + 1, !.attempted = @ + 1]
              [] OTHER ->
                     [acc EXCEPT !.invalid_answers = @ + 1, !.attempted = @ + 1]
    IN  [counted EXCEPT !.detailed_responses = Append(@, entry)]

(* score_response numbering the questions from 0.                          *)
score_response_question_from_zero(marked, correct_letter, i) ==
    [question |-> i,
     marked |-> marked_letter(marked),
     correct |-> correct_letter,
     is_correct |-> FALSE,
     status |-> "blank"]

(* Lines 475-485: the entry of question i (from 0) before the if-chain.    *)
score_response(marked, correct_letter, i) ==
    [question |-> i + 1,
     marked |-> marked_letter(marked),
     correct |-> correct_letter,
     is_correct |-> FALSE,
     status |-> "blank"]

(* Lines 475-514: one pass of the loop, i counted from 0.                  *)
score_step(acc, marked_list, key, i) ==
    LET marked == IF i < Len(marked_list) THEN marked_list[i + 1] ELSE None
        correct_letter == IF i < Len(key) THEN key[i + 1] ELSE "A"
        correct_index == Ord(correct_letter) - Ord("A")
    IN  score_update(acc, score_status(marked, correct_index),
                     score_response(marked, correct_letter, i))

(* score_loop stopping one question early.                                 *)
RECURSIVE score_loop_one_short(_, _, _, _, _)
score_loop_one_short(acc, marked_list, key, i, n) ==
    IF i >= n - 1 THEN acc
    ELSE score_loop_one_short(score_step(acc, marked_list, key, i),
                              marked_list, key, i + 1, n)

(* Line 474: for i in range(num_questions).                                *)
RECURSIVE score_loop(_, _, _, _, _)
score_loop(acc, marked_list, key, i, n) ==
    IF i >= n THEN acc
    ELSE score_loop(score_step(acc, marked_list, key, i), marked_list, key,
                    i + 1, n)

(* Python's max(a, b) and min(a, b) on doubles: b when it is strictly      *)
(* greater (smaller), else a.                                              *)
FloatMax(a, b) == IF FloatLess(a, b) THEN b ELSE a

FloatMin(a, b) == IF FloatLess(b, a) THEN b ELSE a

(* The literal 0.3: the double nearest 3/10.                               *)
FloatThreeTenths == FloatDiv(FloatOfInt(3), FloatOfInt(10))

(* Line 516: score / attempted * 100 in doubles, the division first.       *)
score_accuracy(score, attempted) ==
    IF attempted > 0
    THEN FloatMul(FloatDiv(FloatOfInt(score), FloatOfInt(attempted)),
                  FloatOfInt(100))
    ELSE FloatOfInt(0)

(* Line 517: max(50, min(95, 70 + (accuracy - 50) * 0.3)).                 *)
base_confidence(accuracy) ==
    FloatMax(FloatOfInt(50), FloatMin(FloatOfInt(95),
        FloatAdd(FloatOfInt(70),
                 FloatMul(FloatSub(accuracy, FloatOfInt(50)),
                          FloatThreeTenths))))

(* Line 518: (multiple_marks + partial_marks) / num_questions * 20.        *)
invalid_penalty(multiple_marks, partial_marks, n) ==
    FloatMul(FloatDiv(FloatOfInt(multiple_marks + partial_marks),
                      FloatOfInt(n)),
             FloatOfInt(20))

(* score_confidence without the penalty of lines 518-519.                  *)
score_confidence_unpenalized(accuracy, multiple_marks, partial_marks, n) ==
    FloatMax(FloatOfInt(30), base_confidence(accuracy))

(* Lines 517-519.                                                          *)
score_confidence(accuracy, multiple_marks, partial_marks, n) ==
    FloatMax(FloatOfInt(30),
             FloatSub(base_confidence(accuracy),
                      invalid_penalty(multiple_marks, partial_marks, n)))

(* Line 518 divides by num_questions: ZeroDivisionError when it is 0.      *)
score_raises(n) == n = 0

(* Lines 516-539: the report returned for the counters of the loop.        *)
score_report(acc, n) ==
    [score |-> acc.score,
     total_questions |-> n,
     attempted |-> acc.attempted,
     correct_answers |-> acc.score,
     incorrect_answers |-> acc.wrong_answers,
     blank_answers |-> acc.blank_answers,
     multiple_marks |-> acc.multiple_marks,
     partial_marks |-> acc.partial_marks,
     invalid_answers |-> acc.invalid_answers,
     accuracy |-> score_accuracy(acc.score, acc.attempted),
     responses |-> [k \in 1..Len(acc.detailed_responses) |->
                       acc.detailed_responses[k].marked],
     detailed_responses |-> acc.detailed_responses,
     processing_metadata |->
         [confidence |->
              score_confidence(score_accuracy(acc.score, acc.attempted),
                               acc.multiple_marks, acc.partial_marks, n),
          bubbles_detected |-> TRUE,
          image_quality |-> "good"]]

score_answers_with_key(marked_list, key, n) ==
    score_report(score_loop(score_start, marked_list, key, 0, n), n)

----------------------------------------------------------------------------
(* Inputs of the grouper: candidate lists cut from one sheet.              *)

Bubble(x, y, w, h, area, perimeter) ==
    [contour |-> [area |-> area, perimeter |-> perimeter],
     x |-> x, y |-> y, w |-> w, h |-> h]

(* The bubbles of the sheet in the order the detector lists them (bottom   *)
(* of the sheet first). Columns lie 400 apart; the left column has a row   *)
(* at y = 500 with seven marks, two of them overlapping, and a row at      *)
(* y = 600; a fifth column stands right of the grid. The last mark lies    *)
(* between the rows of the left column, its centre 55 below the centre of  *)
(* the mark at (100, 500): the tolerance of line 223 with one row and one  *)
(* question per column, up to the rounding of that line.                   *)
SheetBubbles ==
    << Bubble(500, 620, 12, 12, 113, 38),
       Bubble(100, 600, 12, 12, 113, 38),
       Bubble(105, 502, 12, 12, 95, 38),
       Bubble(250, 500, 12, 12, 113, 38),
       Bubble(220, 500, 14, 12, 120, 40),
       Bubble(1700, 500, 12, 12, 113, 38),
       Bubble(100, 500, 12, 12, 100, 38),
       Bubble(130, 500, 12, 14, 113, 40),
       Bubble(900, 500, 12, 12, 113, 38),
       Bubble(160, 500, 12, 12, 110, 38),
       Bubble(1300, 520, 12, 12, 113, 38),
       Bubble(190, 500, 13, 12, 113, 38),
       Bubble(500, 500, 12, 12, 113, 38),
       Bubble(100, 555, 12, 12, 113, 38) >>

RECURSIVE SubList(_, _, _)
SubList(pool, S, i) ==
    IF i > Len(pool) THEN <<>>
    ELSE (IF i \in S THEN <<pool[i]>> ELSE <<>>) \o SubList(pool, S, i + 1)

CandidateLists ==
    {SubList(SheetBubbles, S, 1) :
        S \in {T \in SUBSET (1..Len(SheetBubbles)) : Cardinality(T) <= MaxBubbles}}

----------------------------------------------------------------------------
(* is_valid_bubble_scanned, scan.py lines 138-165.                         *)
(* A contour is kept by what the function measures on it: the number of    *)
(* its points, cv2.contourArea, the area of the ellipse cv2.fitEllipse     *)
(* fits, the area of its convex hull, and whether cv2.fitEllipse raises.   *)

MIN_CONTOUR_POINTS == 5

Shape(points, area, ellipse_area, hull_area, fit_raises) ==
    [points |-> points, area |-> area, ellipse_area |-> ellipse_area,
     hull_area |-> hull_area, fit_raises |-> fit_raises]

(* Lines 148-151: 0.4 < contour_area / ellipse_area < 1.6.                 *)
ellipse_test(shape) ==
    /\ shape.ellipse_area > 0
    /\ 4 * shape.ellipse_area < 10 * shape.area
    /\ 10 * shape.area < 16 * shape.ellipse_area

(* Lines 153-159 and 165: solidity > 0.6, False when the hull has no area. *)
solidity_test(shape) ==
    /\ shape.hull_area > 0
    /\ 10 * shape.area > 6 * shape.hull_area

(* is_valid_bubble_scanned with the ellipse test deciding alone.           *)
is_valid_bubble_scanned_ellipse_only(shape) ==
    IF shape.points < MIN_CONTOUR_POINTS THEN FALSE
    ELSE IF shape.points >= 5 /\ shape.fit_raises THEN FALSE
    ELSE IF shape.points >= 5 THEN ellipse_test(shape)
    ELSE solidity_test(shape)

is_valid_bubble_scanned(shape) ==
    IF shape.points < MIN_CONTOUR_POINTS THEN FALSE
    ELSE IF shape.points >= 5 /\ shape.fit_raises THEN FALSE
    ELSE IF shape.points >= 5 /\ ellipse_test(shape) THEN TRUE
    ELSE solidity_test(shape)

(* SpecShape: is_valid_bubble_scanned applied to one contour.              *)

MaxContourPoints == 6  \* most points of a contour

(* Areas around the bounds of both tests for an ellipse or a hull of 100.  *)
ShapeAreas == {0, 40, 41, 60, 61, 100, 159, 160}

(* The convex hull of a contour is at least as large as the contour.       *)
Shapes ==
    {sh \in [points : 3..MaxContourPoints, area : ShapeAreas,
             ellipse_area : {0, 100, 400}, hull_area : {0, 100, 160},
             fit_raises : BOOLEAN] : sh.hull_area >= sh.area}

InitShape ==
    /\ pc = "validate"
    /\ bubble_contours \in {<<sh>> : sh \in Shapes}
    /\ result = None
    /\ image = None
    /\ num_questions = 0
    /\ answer_key = <<>>
    /\ student_id = <<>>
    /\ rows = <<>>
    /\ gray = <<>>
    /\ marked_answers = <<>>
    /\ error = ""
    /\ request = None
    /\ db = None

ShapeCall ==
    /\ pc = "validate"
    /\ result' = is_valid_bubble_scanned(bubble_contours[1])
    /\ pc' = "validated"
    /\ UNCHANGED <<db, image, bubble_contours, num_questions, answer_key,
                   student_id, rows, gray, marked_answers, error, request>>

NextShape == ShapeCall

SpecShape == InitShape /\ [][NextShape]_vars

----------------------------------------------------------------------------
(* SpecFilter: filter_overlapping_bubbles applied to the bubbles of a row. *)

MaxRowBubbles == 7  \* most bubbles of a row given to the filter

(* A mark 11 wide whose score is below that of the mark 13 wide at x = 190 *)
(* only by the rounding of lines 297-299, the marks of the sheet's row at  *)
(* y = 500, and a mark whose contour has no perimeter.                     *)
RowPool ==
    <<Bubble(70, 500, 11, 12, 113, 38)>>
        \o SubList(SheetBubbles, {3, 4, 5, 7, 8, 10, 12}, 1)
        \o <<Bubble(280, 500, 12, 12, 113, 0)>>

RowLists ==
    {SubList(RowPool, S, 1) :
        S \in {T \in SUBSET (1..Len(RowPool)) : Cardinality(T) <= MaxRowBubbles}}

InitFilter ==
    /\ pc = "filter"
    /\ bubble_contours \in RowLists
    /\ result = None
    /\ image = None
    /\ num_questions = 0
    /\ answer_key = <<>>
    /\ student_id = <<>>
    /\ rows = <<>>
    /\ gray = <<>>
    /\ marked_answers = <<>>
    /\ error = ""
    /\ request = None
    /\ db = None

FilterCall ==
    /\ pc = "filter"
    /\ result' = filter_overlapping_bubbles(bubble_contours)
    /\ pc' = "filtered"
    /\ UNCHANGED <<db, image, bubble_contours, num_questions, answer_key,
                   student_id, rows, gray, marked_answers, error, request>>

NextFilter == FilterCall

SpecFilter == InitFilter /\ [][NextFilter]_vars

----------------------------------------------------------------------------
(* SpecGroup: group_bubbles_scanned applied to a candidate list.           *)

InitGroup ==
    /\ pc = "group"
    /\ bubble_contours \in CandidateLists
    /\ num_questions \in 1..MaxQuestions
    /\ rows = <<>>
    /\ image = None
    /\ answer_key = <<>>
    /\ student_id = <<>>
    /\ gray = <<>>
    /\ marked_answers = <<>>
    /\ result = None
    /\ error = ""
    /\ request = None
    /\ db = None

GroupCall ==
    /\ pc = "group"
    /\ rows' = group_bubbles_scanned(bubble_contours, num_questions)
    /\ pc' = "grouped"
    /\ UNCHANGED <<db, image, bubble_contours, num_questions, answer_key,
                   student_id, gray, marked_answers, result, error,
                   request>>

NextGroup == GroupCall

SpecGroup == InitGroup /\ [][NextGroup]_vars

----------------------------------------------------------------------------
(* SpecColumns: group_bubbles_scanned applied to the candidates of a sheet *)
(* of five columns for num_questions up to three full rows per column.     *)

MaxColumnQuestions == 12  \* largest num_questions of SpecColumns

(* Columns 400 apart and rows 100 apart: two marks in the first column,    *)
(* one in the second and third, three in the fourth and two in a fifth     *)
(* column right of the grid.                                               *)
ColumnBubbles ==
    << Bubble(1300, 700, 12, 12, 113, 38),
       Bubble(100, 600, 12, 12, 113, 38),
       Bubble(1300, 600, 12, 12, 113, 38),
       Bubble(1700, 600, 12, 12, 113, 38),
       Bubble(100, 500, 12, 12, 113, 38),
       Bubble(500, 500, 12, 12, 113, 38),
       Bubble(900, 500, 12, 12, 113, 38),
       Bubble(1300, 500, 12, 12, 113, 38),
       Bubble(1700, 500, 12, 12, 113, 38) >>

ColumnLists ==
    {SubList(ColumnBubbles, S, 1) : S \in SUBSET (1..Len(ColumnBubbles))}

InitColumns ==
    /\ pc = "group"
    /\ bubble_contours \in ColumnLists
    /\ num_questions \in 1..MaxColumnQuestions
    /\ rows = <<>>
    /\ image = None
    /\ answer_key = <<>>
    /\ student_id = <<>>
    /\ gray = <<>>
    /\ marked_answers = <<>>
    /\ result = None
    /\ error = ""
    /\ request = None
    /\ db = None

SpecColumns == InitColumns /\ [][NextGroup]_vars

----------------------------------------------------------------------------
(* SpecMark: detect_marked_bubbles_scanned applied to a list of rows.      *)

(* One ink sample per BubbleState: BLANK, PARTIAL, FILLED, INVALID.        *)
InkSamples ==
    {Ink(144, 50, 100, TRUE), Ink(144, 50, 400, TRUE), Ink(144, 50, 800, TRUE),
     Ink(144, 50, 800, FALSE)}

(* What a row shows: the ink of its bubbles, left to right. The first row  *)
(* ranges over every row of up to NUM_CHOICES bubbles, the rows after it   *)
(* over the rows of at most one bubble.                                    *)
FullMarkRows == UNION {[1..k -> InkSamples] : k \in 0..NUM_CHOICES}

ShortMarkRows == UNION {[1..k -> InkSamples] : k \in 0..1}

RECURSIVE ShortMarkLists(_)
ShortMarkLists(r) ==
    IF r = 0 THEN {<<>>}
    ELSE {<<row>> \o rest : row \in ShortMarkRows, rest \in ShortMarkLists(r - 1)}

MarkSheets ==
    {<<>>} \cup
    UNION {{<<row>> \o rest : row \in FullMarkRows, rest \in ShortMarkLists(r)} :
              r \in 0..(MaxMarkRows - 1)}

(* The bubble of row r, place j of the grid the rows are laid on.          *)
GridBubble(r, j) == Bubble(100 + 30 * (j - 1), 500 + 100 * (r - 1), 12, 12, 113, 38)

SheetRows(sheet) ==
    [r \in 1..Len(sheet) |->
        [center_y |-> IntRat(bubble_center_y(GridBubble(r, 1))),
         bubbles |-> [j \in 1..Len(sheet[r]) |-> GridBubble(r, j)],
         column |-> 0]]

SheetGray(sheet) ==
    LET at == {<<r, j>> \in (1..Len(sheet)) \X (1..NUM_CHOICES) : j <= Len(sheet[r])}
    IN  [pos \in {<<GridBubble(q[1], q[2]).x, GridBubble(q[1], q[2]).y>> : q \in at} |->
            LET q == CHOOSE q \in at : pos = <<GridBubble(q[1], q[2]).x,
                                               GridBubble(q[1], q[2]).y>>
            IN  sheet[q[1]][q[2]]]

InitMark ==
    /\ pc = "mark"
    /\ \E sheet \in MarkSheets :
           /\ rows = SheetRows(sheet)
           /\ gray = SheetGray(sheet)
    /\ num_questions \in 1..MaxScored
    /\ marked_answers = <<>>
    /\ image = None
    /\ bubble_contours = <<>>
    /\ answer_key = <<>>
    /\ student_id = <<>>
    /\ result = None
    /\ error = ""
    /\ request = None
    /\ db = None

MarkCall ==
    /\ pc = "mark"
    /\ marked_answers' = detect_marked_bubbles_scanned(gray, rows, num_questions)
    /\ pc' = "marked"
    /\ UNCHANGED <<db, image, bubble_contours, num_questions, answer_key,
                   student_id, rows, gray, result, error,
                   request>>

NextMark == MarkCall

SpecMark == InitMark /\ [][NextMark]_vars

----------------------------------------------------------------------------
(* SpecPlaces: detect_marked_bubbles_scanned applied to one row of which   *)
(* any of the NUM_CHOICES printed bubbles may have gone undetected.        *)

(* What the row shows: the ink of each detected choice place.              *)
PlaceRows ==
    UNION {[places -> InkSamples] : places \in SUBSET (1..NUM_CHOICES)}

(* The places of a row in ascending order, as the grouper's sort by x      *)
(* leaves its bubbles.                                                     *)
RECURSIVE PlacesAscending(_)
PlacesAscending(places) ==
    IF places = {} THEN <<>>
    ELSE LET first == CHOOSE j \in places : \A k \in places : j <= k
         IN  <<first>> \o PlacesAscending(places \ {first})

PlaceRowOf(shown) ==
    LET order == PlacesAscending(DOMAIN shown)
    IN  [center_y |-> IntRat(bubble_center_y(GridBubble(1, 1))),
         bubbles |-> [k \in 1..Len(order) |-> GridBubble(1, order[k])],
         column |-> 0]

PlaceGray(shown) ==
    [pos \in {<<GridBubble(1, j).x, GridBubble(1, j).y>> : j \in DOMAIN shown} |->
        shown[CHOOSE j \in DOMAIN shown : pos = <<GridBubble(1, j).x,
                                                  GridBubble(1, j).y>>]]

InitPlaces ==
    /\ pc = "mark"
    /\ \E shown \in PlaceRows :
           /\ rows = <<PlaceRowOf(shown)>>
           /\ gray = PlaceGray(shown)
    /\ num_questions = 1
    /\ marked_answers = <<>>
    /\ image = None
    /\ bubble_contours = <<>>
    /\ answer_key = <<>>
    /\ student_id = <<>>
    /\ result = None
    /\ error = ""
    /\ request = None
    /\ db = None

SpecPlaces == InitPlaces /\ [][NextMark]_vars

----------------------------------------------------------------------------
(* SpecFill: analyze_bubble_fill_scanned applied to one bubble.            *)

(* Fill ratios in thousandths: every twentieth and the neighbours of the   *)
(* two thresholds.                                                         *)
FillRatios ==
    {0, 50, 100, 150, 200, 249, 250, 251, 300, 350, 400, 450, 500, 550, 599,
     600, 601, 650, 700, 750, 800, 850, 900, 950, 1000}

(* What the image shows under a bubble: an empty crop, a crop with no      *)
(* pixel inside the contour, or a crop with pixels, a ratio and a verdict. *)
FillInks ==
    {Ink(0, 0, 0, FALSE), Ink(144, 0, 0, FALSE)}
        \cup {Ink(144, 100, f, v) : f \in FillRatios, v \in BOOLEAN}

InitFill ==
    /\ pc = "analyze"
    /\ \E b \in {SheetBubbles[1], SheetBubbles[7]}, ink \in FillInks :
           /\ bubble_contours = <<b>>
           /\ gray = [pos \in {<<b.x, b.y>>} |-> ink]
    /\ result = None
    /\ image = None
    /\ num_questions = 0
    /\ answer_key = <<>>
    /\ student_id = <<>>
    /\ rows = <<>>
    /\ marked_answers = <<>>
    /\ error = ""
    /\ request = None
    /\ db = None

FillCall ==
    /\ pc = "analyze"
    /\ result' = analyze_bubble_fill_scanned(gray, bubble_contours[1])
    /\ pc' = "analyzed"
    /\ UNCHANGED <<db, image, bubble_contours, num_questions, answer_key,
                   student_id, rows, gray, marked_answers, error, request>>

NextFill == FillCall

SpecFill == InitFill /\ [][NextFill]_vars

----------------------------------------------------------------------------
(* SpecScore: score_answers_with_key applied to a list of outcomes.        *)

(* The outcomes detect_marked_bubbles_scanned produces: a choice index,    *)
(* None (blank), -2 (multiple), -3 (several partial fills).                *)
Outcomes == {None, Some(-2), Some(-3)} \cup {Some(k) : k \in 0..(NUM_CHOICES - 1)}

KeyLetters == {Chr(65 + k) : k \in 0..(NUM_CHOICES - 1)}

InitScore ==
    /\ pc = "score"
    /\ num_questions \in 1..MaxScored
    /\ marked_answers \in UNION {[1..k -> Outcomes] :
                                    k \in (num_questions - 1)..num_questions}
    /\ answer_key \in [1..num_questions -> KeyLetters]
    /\ result = None
    /\ image = None
    /\ bubble_contours = <<>>
    /\ student_id = <<>>
    /\ rows = <<>>
    /\ gray = <<>>
    /\ error = ""
    /\ request = None
    /\ db = None

ScoreCall ==
    /\ pc = "score"
    /\ ~score_raises(num_questions)
    /\ result' = score_answers_with_key(marked_answers, answer_key, num_questions)
    /\ pc' = "scored"
    /\ UNCHANGED <<db, image, bubble_contours, num_questions, answer_key,
                   student_id, rows, gray, marked_answers, error,
                   request>>

NextScore == ScoreCall

SpecScore == InitScore /\ [][NextScore]_vars

(* SpecScoreKeys: score_answers_with_key with characters outside A..E in   *)
(* the key, which lines 612-614 copy unvalidated from the stored solution: *)
(* ">", "?" and "@" lie 3, 2 and 1 below "A", and "F" lies above "E".      *)

KeyCharacters == {">", "?", "@", "A", "F"}

InitScoreKeys ==
    /\ pc = "score"
    /\ num_questions \in 1..MaxScored
    /\ marked_answers \in UNION {[1..k -> Outcomes] :
                                    k \in (num_questions - 1)..num_questions}
    /\ answer_key \in [1..num_questions -> KeyCharacters]
    /\ result = None
    /\ image = None
    /\ bubble_contours = <<>>
    /\ student_id = <<>>
    /\ rows = <<>>
    /\ gray = <<>>
    /\ error = ""
    /\ request = None
    /\ db = None

SpecScoreKeys == InitScoreKeys /\ [][NextScore]_vars

----------------------------------------------------------------------------
(* Spec: process_omr_image, scan.py lines 544-587, one action per stage.   *)
(* The image is None when cv2.imdecode cannot decode the bytes, else the   *)
(* sheet <<[bubbles, ink]>>: the candidates detect_bubbles_scanned finds   *)
(* on it and the ink preprocess_scanned_image's gray shows under them.     *)

MsgDecode == "Failed to process OMR image: Could not decode image"

MsgNoBubbles ==
    "Failed to process OMR image: No bubble contours detected. Check image quality and parameters."

MsgNoRows ==
    "Failed to process OMR image: No structured rows detected. Check bubble grouping parameters."

MsgFloatDivision == "Failed to process OMR image: float division by zero"

MsgDivision == "Failed to process OMR image: division by zero"

MsgIndex == "Failed to process OMR image: list index out of range"

(* The bubbles a pipeline sheet is cut from: two columns of two rows, the  *)
(* upper left row with two bubbles.                                        *)
PipelineBubbles == SubList(SheetBubbles, {1, 2, 7, 8, 13}, 1)

PositionsOf(bubbles) == {<<bubbles[i].x, bubbles[i].y>> : i \in 1..Len(bubbles)}

Sheets ==
    UNION {{[bubbles |-> SubList(PipelineBubbles, S, 1), ink |-> f] :
               f \in [PositionsOf(SubList(PipelineBubbles, S, 1)) -> InkSamples]} :
           S \in {T \in SUBSET (1..Len(PipelineBubbles)) :
                      Cardinality(T) <= MaxSheetBubbles}}

Images == {None} \cup {Some(sheet) : sheet \in Sheets}

(* num_questions: the counts up to MaxQuestions, 0, the negative count     *)
(* whose questions_per_column is -1, and the least count that gives a      *)
(* column three rows.                                                      *)
QuestionCounts == {-NUM_COLUMNS, 2 * NUM_COLUMNS + 1} \cup (0..MaxQuestions)

(* An answer key of length num_questions: A, B, C, D, E, A, ...            *)
KeyFor(n) == [i \in 1..Max(0, n) |-> Chr(65 + ((i - 1) % NUM_CHOICES))]

(* student_id by its pieces between '_': STUDENT_001, STUDENT_7 and S1.    *)
StudentIds == {<<"STUDENT", "001">>, <<"STUDENT", "7">>, <<"S1">>}

(* str.zfill(3): zeros on the left up to three characters, after a        *)
(* leading sign.                                                           *)
zfill3(piece) ==
    IF Len(piece) >= 3 THEN piece
    ELSE IF Len(piece) > 0 /\ Head(piece) \in {"+", "-"}
         THEN Head(piece) \o SubSeq("000", 1, 3 - Len(piece)) \o Tail(piece)
         ELSE SubSeq("000", 1, 3 - Len(piece)) \o piece

Init ==
    /\ pc = "start"
    /\ image \in Images
    /\ num_questions \in QuestionCounts
    /\ answer_key = KeyFor(num_questions)
    /\ student_id \in StudentIds
    /\ bubble_contours = <<>>
    /\ rows = <<>>
    /\ gray = <<>>
    /\ marked_answers = <<>>
    /\ result = None
    /\ error = ""
    /\ request = None
    /\ db = None

(* Lines 585-587: the exception is logged and raised again as ValueError.  *)
Raise(msg) ==
    /\ pc' = "failed"
    /\ error' = msg

(* Lines 548-554.                                                          *)
Decode ==
    /\ pc = "start"
    /\ IF image = None
       THEN Raise(MsgDecode)
       ELSE pc' = "decoded" /\ error' = error
    /\ UNCHANGED <<db, image, bubble_contours, num_questions, answer_key,
                   student_id, rows, gray, marked_answers, result,
                   request>>

(* Detect without the check of lines 560-561.                              *)
Detect_unchecked ==
    /\ pc = "decoded"
    /\ gray' = image[1].ink
    /\ bubble_contours' = image[1].bubbles
    /\ pc' = "detected"
    /\ UNCHANGED <<db, image, num_questions, answer_key, student_id, rows,
                   marked_answers, result, error,
                   request>>

(* Lines 556-563: preprocess_scanned_image and detect_bubbles_scanned.     *)
Detect ==
    /\ pc = "decoded"
    /\ gray' = image[1].ink
    /\ bubble_contours' = image[1].bubbles
    /\ IF image[1].bubbles = <<>>
       THEN Raise(MsgNoBubbles)
       ELSE pc' = "detected" /\ error' = error
    /\ UNCHANGED <<db, image, num_questions, answer_key, student_id, rows,
                   marked_answers, result,
                   request>>

(* Group without the check of lines 567-568.                               *)
Group_unchecked ==
    /\ pc = "detected"
    /\ IF group_raises(bubble_contours, num_questions)
       THEN Raise(MsgFloatDivision) /\ rows' = rows
       ELSE /\ rows' = group_bubbles_scanned(bubble_contours, num_questions)
            /\ pc' = "grouped"
            /\ error' = error
    /\ UNCHANGED <<db, image, bubble_contours, num_questions, answer_key,
                   student_id, gray, marked_answers, result,
                   request>>

(* Lines 565-570.                                                          *)
Group ==
    /\ pc = "detected"
    /\ IF group_raises(bubble_contours, num_questions)
       THEN Raise(MsgFloatDivision) /\ rows' = rows
       ELSE /\ rows' = group_bubbles_scanned(bubble_contours, num_questions)
            /\ IF Len(rows') = 0
               THEN Raise(MsgNoRows)
               ELSE pc' = "grouped" /\ error' = error
    /\ UNCHANGED <<db, image, bubble_contours, num_questions, answer_key,
                   student_id, gray, marked_answers, result,
                   request>>

(* Line 572.                                                               *)
Mark ==
    /\ pc = "grouped"
    /\ marked_answers' = detect_marked_bubbles_scanned(gray, rows, num_questions)
    /\ pc' = "marked"
    /\ UNCHANGED <<db, image, bubble_contours, num_questions, answer_key,
                   student_id, rows, gray, result, error,
                   request>>

(* Line 574.                                                               *)
Score ==
    /\ pc = "marked"
    /\ IF score_raises(num_questions)
       THEN Raise(MsgDivision) /\ result' = result
       ELSE /\ result' = score_answers_with_key(marked_answers, answer_key,
                                                num_questions)
            /\ pc' = "scored"
            /\ error' = error
    /\ UNCHANGED <<db, image, bubble_contours, num_questions, answer_key,
                   student_id, rows, gray, marked_answers,
                   request>>

(* Lines 576-583: the placeholder student fields, then the return. Line    *)
(* 576 has stored studentId in the report when line 578 raises IndexError. *)
Attach ==
    /\ pc = "scored"
    /\ IF Len(student_id) < 2
       THEN /\ Raise(MsgIndex)
            /\ result' = [studentId |-> student_id] @@ result
       ELSE /\ result' = [studentId |-> student_id,
                          studentName |-> <<"Student ", student_id[2]>>,
                          rank |-> "Cadet",
                          lockerNumber |-> <<"L", zfill3(student_id[2])>>]
                             @@ result
            /\ pc' = "done"
            /\ error' = error
    /\ UNCHANGED <<db, image, bubble_contours, num_questions, answer_key,
                   student_id, rows, gray, marked_answers,
                   request>>

Next == Decode \/ Detect \/ Group \/ Mark \/ Score \/ Attach

Spec == Init /\ [][Next]_vars

----------------------------------------------------------------------------
(* process_omr_image as one call, scan.py lines 544-587: the error raised  *)
(* ("" when none) and the report returned (None when it raises).           *)

Raised(msg) == [error |-> msg, result |-> None]

Returned(report) == [error |-> "", result |-> report]

(* Lines 576-580: the placeholder student fields.                          *)
attach_student(report, sid) ==
    [studentId |-> sid,
     studentName |-> <<"Student ", sid[2]>>,
     rank |-> "Cadet",
     lockerNumber |-> <<"L", zfill3(sid[2])>>] @@ report

(* Lines 567-583: from the grouped rows to the report.                     *)
process_rows(img, key, n, sid, rws) ==
    IF Len(rws) = 0 THEN Raised(MsgNoRows)
    ELSE IF score_raises(n) THEN Raised(MsgDivision)
    ELSE IF Len(sid) < 2 THEN Raised(MsgIndex)
    ELSE Returned(attach_student(
             score_answers_with_key(
                 detect_marked_bubbles_scanned(img[1].ink, rws, n), key, n),
             sid))

process_omr_image(img, key, n, sid) ==
    IF img = None THEN Raised(MsgDecode)
    ELSE IF img[1].bubbles = <<>> THEN Raised(MsgNoBubbles)
    ELSE IF group_raises(img[1].bubbles, n) THEN Raised(MsgFloatDivision)
    ELSE process_rows(img, key, n, sid,
                      group_bubbles_scanned(img[1].bubbles, n))

----------------------------------------------------------------------------
(* SpecHandler: the request handlers process_answer_sheet (lines 589-666)  *)
(* and batch_process_answer_sheets (lines 668-759). Each await of a        *)
(* handler ends one step. db holds the exams and solutions collections;    *)
(* request holds what the client sent (images, examId, studentId), the     *)
(* handler's locals (exam, solution, image_data, answer_key, index,        *)
(* results), the number of process_omr_image calls made so far and the     *)
(* answer: status 0 while none is sent, else the HTTP status with its      *)
(* detail or body.                                                         *)

MaxUploads == 2        \* most files of a batch upload
MaxExamQuestions == 2  \* largest numQuestions of a stored exam

(* What an upload decodes to: undecodable bytes, a sheet with one blank    *)
(* bubble, a sheet with one filled bubble.                                 *)
UploadImages ==
    {None} \cup
    {Some([bubbles |-> <<SheetBubbles[7]>>,
           ink |-> [pos \in PositionsOf(<<SheetBubbles[7]>>) |-> ink]]) :
        ink \in {Ink(144, 100, 100, TRUE), Ink(144, 100, 900, TRUE)}}

(* UploadFile.content_type: the part's Content-Type header, None when the  *)
(* part has none.                                                          *)
ContentTypes == {None, Some("image/png"), Some("text/plain")}

(* An uploaded file: its content type and what its bytes decode to (the    *)
(* bytes of a file that is not an image are never read).                   *)
Uploads ==
    {[content_type |-> Some("image/png"), data |-> d] : d \in UploadImages}
    \cup {[content_type |-> t, data |-> None] :
             t \in ContentTypes \ {Some("image/png")}}

UploadLists == UNION {[1..k -> Uploads] : k \in 0..MaxUploads}

(* The exam document of an examId.                                         *)
ExamDoc(exam_id, n) ==
    [examId |-> exam_id, numQuestions |-> n, marksPerMcq |-> 2,
     passingPercentage |-> 50]

(* db.exams: the exam E2, alone or followed by an exam E1.                 *)
Exams ==
    {<<ExamDoc("E2", 1)>>} \cup
    {<<ExamDoc("E2", 1), ExamDoc("E1", n)>> : n \in 0..MaxExamQuestions}

(* The solutions lists of length k: question i answered A, B, ..., stored  *)
(* in ascending or descending question order.                              *)
SolutionList(k, descending) ==
    [i \in 1..k |->
        LET q == IF descending THEN k + 1 - i ELSE i
        IN  [question |-> q, answer |-> Chr(65 + ((q - 1) % NUM_CHOICES))]]

SolutionDoc(exam_id, k, descending) ==
    [examId |-> exam_id, solutions |-> SolutionList(k, descending)]

(* db.solutions: the key of E2, alone or followed by a key of E1.          *)
Solutions ==
    {<<SolutionDoc("E2", 1, FALSE)>>} \cup
    {<<SolutionDoc("E2", 1, FALSE), SolutionDoc("E1", k, d)>> :
        k \in 0..(MaxExamQuestions + 1), d \in BOOLEAN}

(* Lines 602, 606, 677 and 681: find_one({"examId": examId}), the first    *)
(* document of the collection with that examId, None without one.          *)
find_by_exam_id(collection, exam_id) ==
    LET found == SelectSeq(collection, LAMBDA doc : doc.examId = exam_id)
    IN  IF found = <<>> THEN None ELSE Some(found[1])

(* f"{k:03d}" for the positions of a batch.                                *)
Pad3(k) == <<"000", "001", "002", "003", "004", "005", "006", "007", "008", "009">>[k + 1]

(* str.startswith.                                                         *)
startswith(s, prefix) ==
    Len(s) >= Len(prefix) /\ SubSeq(s, 1, Len(prefix)) = prefix

(* Lines 612-614 and 685-687: the answers in ascending question order.     *)
build_answer_key(solution) ==
    LET sorted == StableSort(solution.solutions,
                      LAMBDA a, b : a.question < b.question)
    IN  [i \in 1..Len(sorted) |-> sorted[i].answer]

(* key_length_mismatch with the comparison left out.                       *)
key_length_mismatch_unchecked(key, exam) == FALSE

(* Lines 616 and 689.                                                      *)
key_length_mismatch(key, exam) == Len(key) # exam.numQuestions

HttpError(status, detail) == [status |-> status, detail |-> detail]

DetailNotImage == "File must be an image"
DetailNoExam == "Exam not found"
DetailNoKey == "Answer key not found for this exam"

(* Lines 619 and 692: the f-string with the two lengths.                   *)
DetailMismatch(key, exam) ==
    <<"Answer key length (", Len(key), ") doesn't match exam questions (",
      exam.numQuestions, ")">>

(* The AttributeError of lines 599 and 697 for a content type of None.     *)
MsgNoContentType == "'NoneType' object has no attribute 'startswith'"

(* Lines 664-666 and 757-759: `except Exception` also catches the          *)
(* HTTPException raised inside the try block and answers 500.              *)
wrap_exception(prefix, exc) ==
    HttpError(500, <<prefix, exc.status, exc.detail>>)

(* Lines 664-666 and 757-759 for an exception that is no HTTPException:    *)
(* 500 with the prefix and str(e).                                         *)
wrap_error(prefix, msg) == HttpError(500, <<prefix, msg>>)

(* Lines 631 and 716: score / total_marks * 100 in doubles.                *)
grade_percentage(score, total_marks) ==
    IF total_marks > 0
    THEN FloatMul(FloatDiv(FloatOfInt(score), FloatOfInt(total_marks)),
                  FloatOfInt(100))
    ELSE FloatOfInt(0)

(* Lines 632 and 717, and the four fields the entry takes from them.       *)
grade_fields(score, total_marks, percentage, exam) ==
    [score |-> score,
     totalMarks |-> total_marks,
     percentage |-> percentage,
     passFailStatus |->
         IF ~FloatLess(percentage, FloatOfInt(exam.passingPercentage))
         THEN "Pass" ELSE "Fail"]

(* Lines 629-632 and 714-717.                                              *)
grade(report, exam) ==
    grade_fields(report.score * exam.marksPerMcq,
                 exam.numQuestions * exam.marksPerMcq,
                 grade_percentage(report.score * exam.marksPerMcq,
                                  exam.numQuestions * exam.marksPerMcq),
                 exam)

(* Lines 638-655 and 719-736: the entry built from a report.               *)
sheet_entry(sid, report, exam) ==
    [studentId |-> sid,
     studentName |-> report.studentName,
     rank |-> report.rank,
     lockerNumber |-> report.lockerNumber,
     accuracy |-> report.accuracy,
     responses |-> report.responses,
     correctAnswers |-> report.correct_answers,
     incorrectAnswers |-> report.incorrect_answers,
     blankAnswers |-> report.blank_answers,
     multipleMarks |-> report.multiple_marks,
     invalidAnswers |-> report.invalid_answers,
     processingMetadata |-> report.processing_metadata] @@ grade(report, exam)

(* error_entry numbering the sheets from zero.                             *)
error_entry_from_zero(index, msg) ==
    [studentId |-> <<"STUDENT", Pad3(index)>>,
     studentName |-> <<"Student ", Pad3(index)>>,
     rank |-> "Unknown",
     lockerNumber |-> "Unknown",
     error |-> <<"Processing failed: ", msg>>]

(* Lines 742-748: the entry of a sheet whose processing failed.            *)
error_entry(index, msg) ==
    [studentId |-> <<"STUDENT", Pad3(index + 1)>>,
     studentName |-> <<"Student ", Pad3(index + 1)>>,
     rank |-> "Unknown",
     lockerNumber |-> "Unknown",
     error |-> <<"Processing failed: ", msg>>]

InitHandler ==
    /\ pc \in {"process", "batch"}
    /\ \E images \in UploadLists, sid \in StudentIds :
           /\ pc = "process" => Len(images) = 1
           /\ pc = "batch" => sid = <<"S1">>
           /\ request = [handler |-> pc, images |-> images, examId |-> "E1",
                         studentId |-> sid,
                         exam |-> None, solution |-> None,
                         image_data |-> None,
                         answer_key |-> <<>>, index |-> 0, results |-> <<>>,
                         calls |-> 0, status |-> 0, detail |-> "",
                         body |-> None]
    /\ \E exams \in Exams, solutions \in Solutions :
           db = [exams |-> exams, solutions |-> solutions]
    /\ image = None
    /\ bubble_contours = <<>>
    /\ num_questions = 0
    /\ answer_key = <<>>
    /\ student_id = <<>>
    /\ rows = <<>>
    /\ gray = <<>>
    /\ marked_answers = <<>>
    /\ result = None
    /\ error = ""

(* The answer is sent: the handler raises HTTPException or returns.        *)
Respond(req, status, detail, body) ==
    /\ request' = [req EXCEPT !.status = status, !.detail = detail,
                              !.body = body]
    /\ pc' = "responded"

(* The HTTPException exc is answered.                                      *)
RespondError(req, exc) == Respond(req, exc.status, exc.detail, None)

PrefixProcess == "Failed to process answer sheet: "
PrefixBatch == "Failed to process batch: "

(* process_answer_sheet, lines 596-602: the content-type test, then await  *)
(* db.exams.find_one.                                                      *)
ProcessFindExam ==
    /\ pc = "process"
    /\ IF request.images[1].content_type = None
       THEN RespondError(request, wrap_error(PrefixProcess, MsgNoContentType))
       ELSE IF ~startswith(request.images[1].content_type[1], "image/")
       THEN RespondError(request,
                wrap_exception(PrefixProcess, HttpError(400, DetailNotImage)))
       ELSE /\ request' = [request EXCEPT !.exam =
                              find_by_exam_id(db.exams, request.examId)]
            /\ pc' = "process_exam"
    /\ UNCHANGED <<db, image, bubble_contours, num_questions, answer_key,
                   student_id, rows, gray, marked_answers, result, error>>

(* Lines 603-606: no exam raises 404; else await db.solutions.find_one.    *)
ProcessFindSolution ==
    /\ pc = "process_exam"
    /\ IF request.exam = None
       THEN RespondError(request,
                wrap_exception(PrefixProcess, HttpError(404, DetailNoExam)))
       ELSE /\ request' = [request EXCEPT !.solution =
                              find_by_exam_id(db.solutions, request.examId)]
            /\ pc' = "process_solution"
    /\ UNCHANGED <<db, image, bubble_contours, num_questions, answer_key,
                   student_id, rows, gray, marked_answers, result, error>>

(* Lines 607-610: no solution raises 404; else await image.read().         *)
ProcessRead ==
    /\ pc = "process_solution"
    /\ IF request.solution = None
       THEN RespondError(request,
                wrap_exception(PrefixProcess, HttpError(404, DetailNoKey)))
       ELSE /\ request' = [request EXCEPT !.image_data =
                              request.images[1].data]
            /\ pc' = "process_read"
    /\ UNCHANGED <<db, image, bubble_contours, num_questions, answer_key,
                   student_id, rows, gray, marked_answers, result, error>>

(* Lines 629-663: the answer to the outcome of process_omr_image, 400 with *)
(* its message when it raised ValueError.                                  *)
RespondOutcome(called, outcome, exam) ==
    IF outcome.error # ""
    THEN Respond(called, 400, outcome.error, None)
    ELSE Respond(called, 200, "",
             Some([success |-> TRUE,
                   examId |-> called.examId,
                   studentId |-> called.studentId,
                   response |-> sheet_entry(called.studentId,
                                            outcome.result, exam)]))

(* Lines 612-666 with the key built: the length test, the call and the     *)
(* answer.                                                                 *)
ProcessKey(req, key, exam) ==
    IF key_length_mismatch(key, exam)
    THEN RespondError(req,
             wrap_exception(PrefixProcess,
                            HttpError(400, DetailMismatch(key, exam))))
    ELSE RespondOutcome(
             [req EXCEPT !.answer_key = key, !.calls = @ + 1],
             process_omr_image(req.image_data, key, exam.numQuestions,
                               req.studentId),
             exam)

(* Lines 612-666: from the image bytes to the answer.                      *)
ProcessSheet ==
    /\ pc = "process_read"
    /\ ProcessKey(request, build_answer_key(request.solution[1]),
                  request.exam[1])
    /\ UNCHANGED <<db, image, bubble_contours, num_questions, answer_key,
                   student_id, rows, gray, marked_answers, result, error>>

(* batch_process_answer_sheets, lines 674-677: await db.exams.find_one.    *)
BatchFindExam ==
    /\ pc = "batch"
    /\ request' = [request EXCEPT !.exam =
                      find_by_exam_id(db.exams, request.examId)]
    /\ pc' = "batch_exam"
    /\ UNCHANGED <<db, image, bubble_contours, num_questions, answer_key,
                   student_id, rows, gray, marked_answers, result, error>>

(* Lines 678-681: no exam raises 404; else await db.solutions.find_one.    *)
BatchFindSolution ==
    /\ pc = "batch_exam"
    /\ IF request.exam = None
       THEN RespondError(request,
                wrap_exception(PrefixBatch, HttpError(404, DetailNoExam)))
       ELSE /\ request' = [request EXCEPT !.solution =
                              find_by_exam_id(db.solutions, request.examId)]
            /\ pc' = "batch_solution"
    /\ UNCHANGED <<db, image, bubble_contours, num_questions, answer_key,
                   student_id, rows, gray, marked_answers, result, error>>

(* Lines 685-695 with the key built: the length test before the loop.      *)
BatchKey(req, key, exam) ==
    IF key_length_mismatch(key, exam)
    THEN RespondError(req,
             wrap_exception(PrefixBatch,
                            HttpError(400, DetailMismatch(key, exam))))
    ELSE /\ request' = [req EXCEPT !.answer_key = key, !.results = <<>>]
         /\ pc' = "batch_loop"

(* Lines 682-695: no solution raises 404; else the key and its length      *)
(* test, up to the loop.                                                   *)
BatchStart ==
    /\ pc = "batch_solution"
    /\ IF request.solution = None
       THEN RespondError(request,
                wrap_exception(PrefixBatch, HttpError(404, DetailNoKey)))
       ELSE BatchKey(request, build_answer_key(request.solution[1]),
                     request.exam[1])
    /\ UNCHANGED <<db, image, bubble_contours, num_questions, answer_key,
                   student_id, rows, gray, marked_answers, result, error>>

(* Lines 696-705: the next upload of the loop. A content type of None      *)
(* raises AttributeError outside the try of line 704, which the handler's  *)
(* except Exception answers 500; a file that is not an image is skipped;   *)
(* else await image.read().                                                *)
BatchNext ==
    /\ pc = "batch_loop"
    /\ request.index < Len(request.images)
    /\ IF request.images[request.index + 1].content_type = None
       THEN RespondError(request, wrap_error(PrefixBatch, MsgNoContentType))
       ELSE IF ~startswith(request.images[request.index + 1].content_type[1],
                           "image/")
       THEN /\ request' = [request EXCEPT !.index = @ + 1]
            /\ pc' = pc
       ELSE /\ request' = [request EXCEPT !.image_data =
                              request.images[request.index + 1].data]
            /\ pc' = "batch_read"
    /\ UNCHANGED <<db, image, bubble_contours, num_questions, answer_key,
                   student_id, rows, gray, marked_answers, result, error>>

(* Lines 707-748: the entry of one sheet in the batch results.             *)
batch_entry(index, sid, exam, outcome) ==
    IF outcome.error # ""
    THEN error_entry(index, outcome.error)
    ELSE sheet_entry(sid, outcome.result, exam)

(* Lines 701 and 707-748: the sheet read is processed and its entry        *)
(* appended.                                                               *)
BatchSheet ==
    /\ pc = "batch_read"
    /\ request' = [request EXCEPT
           !.index = @ + 1,
           !.calls = @ + 1,
           !.results = Append(@,
               batch_entry(request.index,
                   <<"STUDENT", Pad3(request.index + 1)>>, request.exam[1],
                   process_omr_image(request.image_data, request.answer_key,
                       request.exam[1].numQuestions,
                       <<"STUDENT", Pad3(request.index + 1)>>)))]
    /\ pc' = "batch_loop"
    /\ UNCHANGED <<db, image, bubble_contours, num_questions, answer_key,
                   student_id, rows, gray, marked_answers, result, error>>

(* Lines 750-755: the batch answer.                                        *)
BatchReturn ==
    /\ pc = "batch_loop"
    /\ request.index >= Len(request.images)
    /\ Respond(request, 200, "",
           Some([success |-> TRUE, examId |-> request.examId,
                 results |-> request.results]))
    /\ UNCHANGED <<db, image, bubble_contours, num_questions, answer_key,
                   student_id, rows, gray, marked_answers, result, error>>

NextHandler ==
    \/ ProcessFindExam
    \/ ProcessFindSolution
    \/ ProcessRead
    \/ ProcessSheet
    \/ BatchFindExam
    \/ BatchFindSolution
    \/ BatchStart
    \/ BatchNext
    \/ BatchSheet
    \/ BatchReturn

SpecHandler == InitHandler /\ [][NextHandler]_vars

----------------------------------------------------------------------------
(* SpecResults: concurrent save_result and publish_results requests of     *)
(* routers/results.py on one database. Each await of a request is one      *)
(* step; the steps of different requests interleave freely.                *)

MaxRequests == 2  \* most requests in flight together

StudentNames == {"S1", "S2"}

(* The exams collection holds the exam E1 alone.                           *)
StoredExams == {"E1"}

(* A document of db.results: its key pair and the request that wrote its   *)
(* fields last.                                                            *)
ResultDoc(exam_id, student, writer) ==
    [examId |-> exam_id, studentId |-> student, writer |-> writer]

(* The bodies of the requests; a missing examId is "".                     *)
SaveBodies ==
    {[handler |-> "save", examId |-> "E1", results |-> <<s>>] :
        s \in StudentNames}

PublishBodies ==
    {[handler |-> "publish", examId |-> e, results |-> l] :
        e \in {"", "E1", "E2"},
        l \in {<<>>, <<"S1">>, <<"S1", "S2">>, <<"S2", "S1">>}}

DetailPublishRequired == "examId and results are required"

(* Motor's collection methods on the list of documents.                    *)
matching(docs, exam_id, student) ==
    {i \in 1..Len(docs) : docs[i].examId = exam_id /\ docs[i].studentId = student}

find_one(docs, exam_id, student) == matching(docs, exam_id, student) # {}

update_one(docs, exam_id, student, writer) ==
    LET found == matching(docs, exam_id, student)
    IN  IF found = {} THEN docs
        ELSE LET first == CHOOSE i \in found : \A k \in found : i <= k
             IN  [docs EXCEPT ![first].writer = writer]

insert_one(docs, doc) == Append(docs, doc)

(* Lines 40-49 and 107-115: update_one when the earlier find_one found a   *)
(* document, insert_one otherwise.                                         *)
write_result(docs, existing_result, exam_id, student, writer) ==
    IF existing_result
    THEN update_one(docs, exam_id, student, writer)
    ELSE insert_one(docs, ResultDoc(exam_id, student, writer))

InitResults ==
    /\ pc = "results"
    /\ db = [exams |-> StoredExams, results |-> <<>>]
    /\ \E n \in 1..MaxRequests :
           \E bodies \in [1..n -> SaveBodies \cup PublishBodies] :
               request = [r \in 1..n |->
                   [handler |-> bodies[r].handler, examId |-> bodies[r].examId,
                    results |-> bodies[r].results, index |-> 1,
                    existing_result |-> FALSE,
                    at |-> IF bodies[r].handler = "save" THEN "find_one"
                           ELSE "start",
                    status |-> 0, detail |-> ""]]
    /\ image = None
    /\ bubble_contours = <<>>
    /\ num_questions = 0
    /\ answer_key = <<>>
    /\ student_id = <<>>
    /\ rows = <<>>
    /\ gray = <<>>
    /\ marked_answers = <<>>
    /\ result = None
    /\ error = ""

(* The request r answers.                                                  *)
Answer(r, status, detail) ==
    request' = [request EXCEPT ![r].at = "done", ![r].status = status,
                               ![r].detail = detail]

(* save_result, lines 36-39: await db.results.find_one.                    *)
SaveFindOne(r) ==
    /\ request[r].handler = "save"
    /\ request[r].at = "find_one"
    /\ request' = [request EXCEPT
           ![r].existing_result =
               find_one(db.results, request[r].examId, request[r].results[1]),
           ![r].at = "write"]
    /\ UNCHANGED <<db, image, bubble_contours, num_questions, answer_key,
                   student_id, rows, gray, marked_answers, result, error, pc>>

(* save_result, lines 41-51: await update_one or insert_one, then return.  *)
SaveWrite(r) ==
    /\ request[r].handler = "save"
    /\ request[r].at = "write"
    /\ db' = [db EXCEPT !.results =
                 write_result(@, request[r].existing_result,
                              request[r].examId, request[r].results[1], r)]
    /\ Answer(r, 200, "Result saved successfully")
    /\ UNCHANGED <<image, bubble_contours, num_questions, answer_key,
                   student_id, rows, gray, marked_answers, result, error, pc>>

(* publish_results, lines 61-71 and 118-120: a missing examId or an empty  *)
(* results list raises HTTPException(400) inside the try, which the        *)
(* except Exception clause answers as a 500.                               *)
PublishValidate(r) ==
    /\ request[r].handler = "publish"
    /\ request[r].at = "start"
    /\ IF request[r].examId = "" \/ request[r].results = <<>>
       THEN LET wrapped == wrap_exception("Failed to publish results: ",
                                          HttpError(400, DetailPublishRequired))
            IN  Answer(r, wrapped.status, wrapped.detail)
       ELSE request' = [request EXCEPT ![r].at = "find_exam"]
    /\ UNCHANGED <<db, image, bubble_contours, num_questions, answer_key,
                   student_id, rows, gray, marked_answers, result, error, pc>>

(* publish_results, lines 73-76 and 118-120: await db.exams.find_one; an   *)
(* unknown exam raises HTTPException(404), answered as a 500.              *)
PublishFindExam(r) ==
    /\ request[r].handler = "publish"
    /\ request[r].at = "find_exam"
    /\ IF request[r].examId \notin db.exams
       THEN LET wrapped == wrap_exception("Failed to publish results: ",
                                          HttpError(404, DetailNoExam))
            IN  Answer(r, wrapped.status, wrapped.detail)
       ELSE request' = [request EXCEPT ![r].at = "find_one"]
    /\ UNCHANGED <<db, image, bubble_contours, num_questions, answer_key,
                   student_id, rows, gray, marked_answers, result, error, pc>>

(* publish_results, lines 78-105: await db.results.find_one for the        *)
(* current result of the loop.                                             *)
PublishFindOne(r) ==
    /\ request[r].handler = "publish"
    /\ request[r].at = "find_one"
    /\ request' = [request EXCEPT
           ![r].existing_result =
               find_one(db.results, request[r].examId,
                        request[r].results[request[r].index]),
           ![r].at = "write"]
    /\ UNCHANGED <<db, image, bubble_contours, num_questions, answer_key,
                   student_id, rows, gray, marked_answers, result, error, pc>>

(* publish_results, lines 107-117: await update_one or insert_one, then    *)
(* the next result of the loop or the return.                              *)
PublishWrite(r) ==
    /\ request[r].handler = "publish"
    /\ request[r].at = "write"
    /\ db' = [db EXCEPT !.results =
                 write_result(@, request[r].existing_result, request[r].examId,
                              request[r].results[request[r].index], r)]
    /\ IF request[r].index < Len(request[r].results)
       THEN request' = [request EXCEPT ![r].index = @ + 1,
                                       ![r].at = "find_one"]
       ELSE Answer(r, 200, <<"Successfully published ",
                             Len(request[r].results), " results for exam ",
                             request[r].examId>>)
    /\ UNCHANGED <<image, bubble_contours, num_questions, answer_key,
                   student_id, rows, gray, marked_answers, result, error, pc>>

NextResults ==
    \E r \in DOMAIN request :
        \/ SaveFindOne(r)
        \/ SaveWrite(r)
        \/ PublishValidate(r)
        \/ PublishFindExam(r)
        \/ PublishFindOne(r)
        \/ PublishWrite(r)

SpecResults == InitResults /\ [][NextResults]_vars

----------------------------------------------------------------------------
(* SpecGroup's claims.                                                     *)

(* C1: for every non-empty candidate list and every num_questions >= 1,    *)
(* group_bubbles_scanned returns exactly num_questions rows. The code      *)
(* gives every column it found its own budget of rows, so this fails.      *)
C1_ExactlyNumQuestionsRows ==
    (pc = "grouped" /\ bubble_contours # <<>> /\ num_questions >= 1)
        => Len(rows) = num_questions

(* C5: in every returned row with two or more bubbles, the bubbles are in  *)
(* ascending order of x, rows reduced by filter_overlapping_bubbles        *)
(* included. The filter returns its picks in score order, so this fails.   *)
C5_RowBubblesAscendingX ==
    pc = "grouped" =>
        \A r \in 1..Len(rows) :
            \A i, j \in 1..Len(rows[r].bubbles) :
                i < j => rows[r].bubbles[i].x <= rows[r].bubbles[j].x

----------------------------------------------------------------------------
(* SpecMark's claims.                                                      *)

(* The state the analyzer gives bubble j of row r.                         *)
StateAt(r, j) == analyze_bubble_fill_scanned(gray, rows[r].bubbles[j])[1]

PlacesIn(r, s) == {j \in 1..Len(rows[r].bubbles) : StateAt(r, j) = s}

(* The rows the loop of detect_marked_bubbles_scanned gets to.             *)
ResolvedRows == 1..Min(Len(rows), num_questions)

(* C3: each row is resolved as: exactly one FILLED -> its index; two or    *)
(* more FILLED -> MULTIPLE (-2) whatever the PARTIAL; no FILLED and        *)
(* exactly one PARTIAL -> its index; no FILLED and two or more PARTIAL ->  *)
(* AMBIGUOUS_PARTIAL (-3); otherwise BLANK (None).                         *)
C3_RowResolution ==
    pc = "marked" =>
        \A r \in ResolvedRows :
            LET F == PlacesIn(r, FILLED)
                P == PlacesIn(r, PARTIAL)
            IN  /\ Cardinality(F) = 1 =>
                       marked_answers[r] = Some((CHOOSE j \in F : TRUE) - 1)
                /\ Cardinality(F) >= 2 => marked_answers[r] = Some(-2)
                /\ (F = {} /\ Cardinality(P) = 1) =>
                       marked_answers[r] = Some((CHOOSE j \in P : TRUE) - 1)
                /\ (F = {} /\ Cardinality(P) >= 2) => marked_answers[r] = Some(-3)
                /\ (F = {} /\ P = {}) => marked_answers[r] = None

(* A full row with no FILLED, one PARTIAL in the last place and an         *)
(* INVALID bubble has been resolved to the PARTIAL's index.                *)
C3_Witness ==
    /\ pc = "marked"
    /\ Len(rows) >= 1
    /\ Len(rows[1].bubbles) = NUM_CHOICES
    /\ PlacesIn(1, FILLED) = {}
    /\ PlacesIn(1, PARTIAL) = {NUM_CHOICES}
    /\ PlacesIn(1, INVALID) # {}
    /\ marked_answers[1] = Some(NUM_CHOICES - 1)

----------------------------------------------------------------------------
(* SpecScore's claims.                                                     *)

(* The outcome of question i (from 1): the list's entry, None past its end. *)
OutcomeOf(i) == IF i <= Len(marked_answers) THEN marked_answers[i] ELSE None

IsIndex(m) == m # None /\ m[1] >= 0

KeyIndex(i) == Ord(answer_key[i]) - Ord("A")

StatusOf(i) == result.detailed_responses[i].status

QuestionsWith(statuses) ==
    {i \in 1..Len(result.detailed_responses) : StatusOf(i) \in statuses}

(* C2: in every report correct_answers + incorrect_answers + blank_answers *)
(* + multiple_marks + partial_marks = num_questions and attempted +        *)
(* blank_answers = num_questions.                                          *)
C2_CountsAddUp ==
    pc = "scored" =>
        /\ result.correct_answers + result.incorrect_answers
               + result.blank_answers + result.multiple_marks
               + result.partial_marks = num_questions
        /\ result.attempted + result.blank_answers = num_questions

(* A report with a blank question and a several-partial question.          *)
C2_Witness ==
    /\ pc = "scored"
    /\ result.blank_answers >= 1
    /\ result.partial_marks >= 1

(* C4: question i gets status correct iff its outcome is the key's index,  *)
(* wrong iff it is another index, multiple iff MULTIPLE, partial iff       *)
(* AMBIGUOUS_PARTIAL, blank iff BLANK; every status but blank counts as    *)
(* attempted; multiple and partial each add one to invalid_answers.        *)
C4_StatusPerOutcome ==
    pc = "scored" =>
        /\ Len(result.detailed_responses) = num_questions
        /\ \A i \in 1..num_questions :
               LET m == OutcomeOf(i)
               IN  /\ (StatusOf(i) = "correct") <=> (IsIndex(m) /\ m[1] = KeyIndex(i))
                   /\ (StatusOf(i) = "wrong") <=> (IsIndex(m) /\ m[1] # KeyIndex(i))
                   /\ (StatusOf(i) = "multiple") <=> (m = Some(-2))
                   /\ (StatusOf(i) = "partial") <=> (m = Some(-3))
                   /\ (StatusOf(i) = "blank") <=> (m = None)
        /\ result.attempted =
               Cardinality({i \in 1..num_questions : StatusOf(i) # "blank"})
        /\ result.invalid_answers =
               Cardinality(QuestionsWith({"multiple", "partial"}))

(* A report with a correct question and a multiple-marked one.             *)
C4_Witness ==
    /\ pc = "scored"
    /\ QuestionsWith({"correct"}) # {}
    /\ QuestionsWith({"multiple"}) # {}

(* The keys that are permutations of answer_key.                           *)
KeyPermutations ==
    LET n == Len(answer_key)
    IN  {[i \in 1..n |-> answer_key[p[i]]] :
            p \in {q \in [1..n -> 1..n] : \A i, j \in 1..n : q[i] = q[j] => i = j}}

(* C8: scoring the same outcomes against a permutation of the key gives    *)
(* the same attempted count and the same marked values; only is_correct,   *)
(* status correct/wrong and the correctness counts may differ.             *)
C8_KeyPermutationKeepsMarks ==
    pc = "scored" =>
        \A key2 \in KeyPermutations :
            LET other == score_answers_with_key(marked_answers, key2, num_questions)
            IN  /\ other.attempted = result.attempted
                /\ other.responses = result.responses
                /\ other.blank_answers = result.blank_answers
                /\ other.multiple_marks = result.multiple_marks
                /\ other.partial_marks = result.partial_marks
                /\ other.invalid_answers = result.invalid_answers
                /\ \A i \in 1..num_questions :
                       /\ other.detailed_responses[i].marked
                              = result.detailed_responses[i].marked
                       /\ \/ other.detailed_responses[i].status = StatusOf(i)
                          \/ {other.detailed_responses[i].status, StatusOf(i)}
                                 = {"correct", "wrong"}

(* A report whose score changes under some permutation of its key.         *)
C8_Witness ==
    /\ pc = "scored"
    /\ \E key2 \in KeyPermutations :
           score_answers_with_key(marked_answers, key2, num_questions).score
               # result.score

(* C10: detailed_responses[i].question = i + 1 for every i from 0,         *)
(* is_correct holds exactly when status is correct, and score is the       *)
(* number of entries with status correct.                                  *)
C10_DetailedResponses ==
    pc = "scored" =>
        /\ Len(result.detailed_responses) = num_questions
        /\ \A i \in 1..num_questions :
               /\ result.detailed_responses[i].question = i
               /\ result.detailed_responses[i].is_correct
                      <=> (StatusOf(i) = "correct")
        /\ result.score = Cardinality(QuestionsWith({"correct"}))

(* A report with a correct entry and an entry that is not correct.         *)
C10_Witness ==
    /\ pc = "scored"
    /\ result.score >= 1
    /\ result.score < num_questions

----------------------------------------------------------------------------
(* Spec's claims.                                                          *)

(* The sheet shows no bubble candidate (an all-white image).               *)
NoCandidates == image # None /\ image[1].bubbles = <<>>

FailedBy(msg) == pc = "failed" /\ error = msg

(* C6 as claimed: for an all-white image process_omr_image returns a       *)
(* report with correct_answers = 0 and every status blank. The code raises *)
(* instead, so this fails.                                                 *)
C6_AllWhiteGivesBlankReport ==
    (NoCandidates /\ pc \in {"done", "failed"}) =>
        /\ pc = "done"
        /\ result.correct_answers = 0
        /\ \A i \in 1..Len(result.detailed_responses) :
               result.detailed_responses[i].status = "blank"

(* C6 as amended: for an all-white image (no bubble candidate detected)    *)
(* process_omr_image returns no report; it raises "No bubble contours      *)
(* detected" before any row is grouped, marked or scored.                  *)
C6_AllWhiteAborts ==
    (NoCandidates /\ pc \notin {"start", "decoded"}) =>
        /\ FailedBy(MsgNoBubbles)
        /\ rows = <<>>
        /\ marked_answers = <<>>
        /\ result = None

C6_Witness == NoCandidates /\ FailedBy(MsgNoBubbles) /\ num_questions >= 1

(* C7: an undecodable image, an empty candidate list and a zero-length row *)
(* list each abort the call with an error carrying a message: no later     *)
(* stage runs, no report is returned, and nothing runs again after the     *)
(* failure.                                                                *)
C7_StageFailuresAbort ==
    /\ [](/\ (image = None /\ pc # "start") =>
                 /\ FailedBy(MsgDecode)
                 /\ gray = <<>> /\ bubble_contours = <<>> /\ rows = <<>>
                 /\ marked_answers = <<>> /\ result = None
          /\ (NoCandidates /\ pc \notin {"start", "decoded"}) =>
                 /\ FailedBy(MsgNoBubbles)
                 /\ rows = <<>> /\ marked_answers = <<>> /\ result = None
          /\ (/\ pc \notin {"start", "decoded", "detected"}
              /\ bubble_contours # <<>>
              /\ error # MsgFloatDivision
              /\ Len(rows) = 0) =>
                 /\ FailedBy(MsgNoRows)
                 /\ marked_answers = <<>> /\ result = None
          /\ pc = "failed" => error # "")
    /\ [][pc = "failed" => UNCHANGED vars]_vars

(* The grouper returned no row for a non-empty candidate list.             *)
C7_Witness == FailedBy(MsgNoRows) /\ bubble_contours # <<>>

(* C9: in every report (num_questions >= 0, the length of a key) responses *)
(* has exactly num_questions entries, each None or one letter of A..E,     *)
(* also when the grouper returned more or fewer rows than num_questions.   *)
C9_ResponsesShape ==
    (pc \in {"scored", "done"} /\ num_questions >= 0) =>
        /\ Len(result.responses) = num_questions
        /\ \A i \in 1..Len(result.responses) :
               \/ result.responses[i] = None
               \/ \E k \in 0..(NUM_CHOICES - 1) :
                      result.responses[i] = Some(CharTable[k + 4])

(* A returned report for a sheet on which the grouper found more rows than *)
(* num_questions, with a letter among the responses.                       *)
C9_Witness ==
    /\ pc = "done"
    /\ num_questions >= 1
    /\ Len(rows) > num_questions
    /\ \E i \in 1..Len(result.responses) : result.responses[i] # None

(* The same with fewer rows than num_questions.                            *)
C9_FewerRowsReached ==
    /\ pc = "done"
    /\ Len(rows) < num_questions
    /\ \E i \in 1..Len(result.responses) : result.responses[i] # None

----------------------------------------------------------------------------
(* SpecGroup's claims on the order and the shape of the row list.          *)

(* The clusters Phase 1 forms from the candidates, before any is dropped.  *)
ColumnClusters ==
    cluster_columns(StableSort(bubble_contours, LAMBDA a, b : a.x < b.x), <<>>)

(* center_x of the cluster among `clusters` holding the first bubble of    *)
(* the row.                                                                *)
ClusterCenterOf(clusters, row) ==
    LET k == CHOOSE k \in 1..Len(clusters) :
                 \E i \in 1..Len(clusters[k].bubbles) :
                     clusters[k].bubbles[i] = row.bubbles[1]
    IN  clusters[k].center_x

Placeholders == {r \in 1..Len(rows) : rows[r].bubbles = <<>>}

RealRowsOf(c) == {r \in 1..Len(rows) : rows[r].column = c} \ Placeholders

(* C11: the returned rows are in ascending column index and, within one    *)
(* column, in ascending center_y, placeholder rows included with their     *)
(* estimated center_y; a lower column index means a lower center_x.        *)
C11_RowsByColumnThenY ==
    pc = "grouped" =>
        LET clusters == ColumnClusters
            center_x == [r \in 1..Len(rows) |->
                            IF r \in Placeholders THEN IntRat(0)
                            ELSE ClusterCenterOf(clusters, rows[r])]
        IN  \A i, j \in 1..Len(rows) :
                /\ i < j =>
                       \/ rows[i].column < rows[j].column
                       \/ /\ rows[i].column = rows[j].column
                          /\ ~center_less(rows[j].center_y, rows[i].center_y)
                /\ (/\ rows[i].column < rows[j].column
                    /\ i \notin Placeholders
                    /\ j \notin Placeholders) =>
                       RatLess(center_x[i], center_x[j])

(* Two columns of which the right one holds more rows of bubbles, and a    *)
(* placeholder row following a real row of its column.                     *)
C11_Witness ==
    /\ pc = "grouped"
    /\ \E i, j \in 1..Len(rows) :
           /\ rows[i].column < rows[j].column
           /\ Cardinality(RealRowsOf(rows[i].column))
                  < Cardinality(RealRowsOf(rows[j].column))
    /\ \E i \in 1..Len(rows) : \E j \in Placeholders :
           /\ i \notin Placeholders
           /\ rows[i].column = rows[j].column
           /\ center_less(rows[i].center_y, rows[j].center_y)

(* The candidates, as a set.                                               *)
Candidates == {bubble_contours[k] : k \in 1..Len(bubble_contours)}

(* C12: every returned row holds at most NUM_CHOICES bubbles, and each     *)
(* entry of a row is a bubble of the candidate list: a missing bubble      *)
(* makes the row shorter, it is never an empty entry.                      *)
C12_AtMostNumChoicesBubbles ==
    pc = "grouped" =>
        \A r \in 1..Len(rows) :
            /\ Len(rows[r].bubbles) <= NUM_CHOICES
            /\ \A i \in 1..Len(rows[r].bubbles) : rows[r].bubbles[i] \in Candidates

(* More than NUM_CHOICES candidates clustered into one row, next to a row  *)
(* with fewer than NUM_CHOICES bubbles.                                    *)
C12_Witness ==
    /\ pc = "grouped"
    /\ Cardinality({b \in Candidates : b.x <= 250 /\ b.y \in 500..502})
           > NUM_CHOICES
    /\ \E r \in 1..Len(rows) : Len(rows[r].bubbles) = NUM_CHOICES
    /\ \E r \in 1..Len(rows) : Len(rows[r].bubbles) < NUM_CHOICES

----------------------------------------------------------------------------
(* Spec's claims on partial fills.                                         *)

(* The questions whose row shows no FILLED bubble and exactly one PARTIAL. *)
LonePartialQuestions ==
    {q \in 1..Min(Len(rows), num_questions) :
        /\ PlacesIn(q, FILLED) = {}
        /\ Cardinality(PlacesIn(q, PARTIAL)) = 1}

(* The questions whose row shows no FILLED bubble and several PARTIAL.     *)
AmbiguousPartialQuestions ==
    {q \in 1..Min(Len(rows), num_questions) :
        /\ PlacesIn(q, FILLED) = {}
        /\ Cardinality(PlacesIn(q, PARTIAL)) > 1}

(* C13: a question with no FILLED bubble and exactly one PARTIAL bubble is *)
(* resolved to that bubble's index and scored as if filled: it is among    *)
(* the attempted, its status is correct (the index is the key's) or wrong, *)
(* never partial, and it adds nothing to partial_marks, which counts the   *)
(* questions with several partial fills only.                              *)
C13_LonePartialScoredAsFilled ==
    (pc \in {"scored", "done"} /\ num_questions >= 1) =>
        /\ \A q \in LonePartialQuestions :
               LET j == CHOOSE j \in PlacesIn(q, PARTIAL) : TRUE
                   entry == result.detailed_responses[q]
               IN  /\ marked_answers[q] = Some(j - 1)
                   /\ entry.marked = Some(Chr(65 + j - 1))
                   /\ entry.status =
                          (IF j - 1 = KeyIndex(q) THEN "correct" ELSE "wrong")
        /\ result.attempted =
               Cardinality({q \in 1..num_questions : StatusOf(q) # "blank"})
        /\ result.partial_marks = Cardinality(AmbiguousPartialQuestions)
        /\ \A q \in 1..num_questions :
               StatusOf(q) = "partial" <=> q \in AmbiguousPartialQuestions

(* A report with a lone partial fill scored wrong next to a question with  *)
(* two partial fills.                                                      *)
C13_Witness ==
    /\ pc = "done"
    /\ \E q \in LonePartialQuestions : StatusOf(q) = "wrong"
    /\ AmbiguousPartialQuestions # {}

(* The same with the lone partial fill scored correct.                     *)
C13_CorrectReached ==
    /\ pc = "done"
    /\ \E q \in LonePartialQuestions : StatusOf(q) = "correct"

----------------------------------------------------------------------------
(* SpecHandler's claims.                                                   *)

(* The documents find_one returns for the request's examId.                *)
StoredExam == find_by_exam_id(db.exams, request.examId)

StoredSolution == find_by_exam_id(db.solutions, request.examId)

(* The content type of the upload at position i names an image.            *)
IsImageUpload(i) ==
    /\ request.images[i].content_type # None
    /\ startswith(request.images[i].content_type[1], "image/")

(* The stored key and the stored exam exist and differ in length.          *)
StoredKeyMismatch ==
    /\ StoredExam # None
    /\ StoredSolution # None
    /\ Len(StoredSolution[1].solutions) # StoredExam[1].numQuestions

(* C14: in process_answer_sheet and batch_process_answer_sheets, when the  *)
(* stored answer key's length differs from the exam's numQuestions, the    *)
(* request is never answered with anything but an error status without a   *)
(* body, process_omr_image is not called for any image of the request and  *)
(* the batch loop is never entered.                                        *)
C14_KeyMismatchFailsBeforeCore ==
    StoredKeyMismatch =>
        /\ request.calls = 0
        /\ pc \notin {"batch_loop", "batch_read"}
        /\ pc = "responded" =>
               /\ request.status >= 400
               /\ request.body = None

(* A batch of image uploads answered with the key-length error for a key   *)
(* that differs in length from the exam.                                   *)
C14_Witness ==
    /\ pc = "responded"
    /\ StoredKeyMismatch
    /\ request.handler = "batch"
    /\ Len(request.images) = MaxUploads
    /\ \A i \in 1..Len(request.images) : IsImageUpload(i)
    /\ request.solution # None
    /\ StoredExam[1].numQuestions >= 1

(* The same for process_answer_sheet with an image upload.                 *)
C14_ProcessReached ==
    /\ pc = "responded"
    /\ StoredKeyMismatch
    /\ request.handler = "process"
    /\ request.solution # None
    /\ IsImageUpload(1)

----------------------------------------------------------------------------
(* SpecScore's claims on accuracy and confidence.                          *)

Clamp(x, lo, hi) == FloatMax(lo, FloatMin(hi, x))

(* correct/attempted*100 in doubles, 0 when nothing was attempted.         *)
ClaimedAccuracy ==
    IF result.attempted = 0 THEN FloatOfInt(0)
    ELSE FloatMul(FloatDiv(FloatOfInt(result.correct_answers),
                           FloatOfInt(result.attempted)),
                  FloatOfInt(100))

(* max(30, clamp(70 + (accuracy - 50)*0.3, 50, 95)                         *)
(*             - (multiple + partial)/num_questions*20) in doubles.        *)
ClaimedConfidence ==
    FloatMax(FloatOfInt(30),
        FloatSub(Clamp(FloatAdd(FloatOfInt(70),
                           FloatMul(FloatSub(ClaimedAccuracy, FloatOfInt(50)),
                                    FloatThreeTenths)),
                       FloatOfInt(50), FloatOfInt(95)),
                 FloatMul(FloatDiv(FloatOfInt(result.multiple_marks
                                              + result.partial_marks),
                                   FloatOfInt(num_questions)),
                          FloatOfInt(20))))

ReportConfidence == result.processing_metadata.confidence

EveryQuestionCorrect == result.correct_answers = num_questions

(* C15 as claimed: accuracy and confidence follow the two formulas,        *)
(* confidence lies in [30, 95] and equals 95 when every question is        *)
(* correct. The formula gives 70 + 50*0.3 = 85 for accuracy 100, so the    *)
(* last part fails.                                                        *)
C15_ConfidenceIs95WhenAllCorrect ==
    pc = "scored" =>
        /\ result.accuracy = ClaimedAccuracy
        /\ ReportConfidence = ClaimedConfidence
        /\ ~FloatLess(ReportConfidence, FloatOfInt(30))
        /\ ~FloatLess(FloatOfInt(95), ReportConfidence)
        /\ EveryQuestionCorrect => ReportConfidence = FloatOfInt(95)

(* C15 as amended: accuracy and confidence follow the two formulas,        *)
(* confidence lies in [35, 85] (so within [30, 95]) and equals 85 when     *)
(* every question is correct.                                              *)
C15_ConfidenceIs85WhenAllCorrect ==
    pc = "scored" =>
        /\ result.accuracy = ClaimedAccuracy
        /\ ReportConfidence = ClaimedConfidence
        /\ ~FloatLess(ReportConfidence, FloatOfInt(35))
        /\ ~FloatLess(FloatOfInt(85), ReportConfidence)
        /\ EveryQuestionCorrect => ReportConfidence = FloatOfInt(85)

(* A report with every question correct.                                   *)
C15_Witness ==
    /\ pc = "scored"
    /\ EveryQuestionCorrect
    /\ num_questions = MaxScored

(* A report whose confidence is lowered by the penalty, and one at 35:     *)
(* accuracy 0 and every question with several marks.                       *)
C15_PenaltyReached ==
    /\ pc = "scored"
    /\ result.multiple_marks + result.partial_marks > 0
    /\ FloatLess(FloatOfInt(35), ReportConfidence)

C15_LowestReached ==
    /\ pc = "scored"
    /\ ReportConfidence = FloatOfInt(35)

----------------------------------------------------------------------------
(* SpecGroup's claims on the rows of each column.                          *)

(* C16: with num_questions = 1 and a non-empty candidate list,             *)
(* group_bubbles_scanned returns exactly one row, and that row belongs to  *)
(* the first (left-most) column. The code gives each column it found one   *)
(* row, so this fails for candidates in two columns.                       *)
C16_OneQuestionOneRow ==
    (pc = "grouped" /\ num_questions = 1 /\ bubble_contours # <<>>) =>
        /\ Len(rows) = 1
        /\ rows[1].column = 0

RowsOfColumn(c) == {r \in 1..Len(rows) : rows[r].column = c}

(* ceil(num_questions / NUM_COLUMNS)                                       *)
CeilPerColumn == (num_questions + NUM_COLUMNS - 1) \div NUM_COLUMNS

(* What is left of num_questions after NUM_COLUMNS - 1 full columns.       *)
Remainder == num_questions - (NUM_COLUMNS - 1) * CeilPerColumn

(* The candidates clustered into the column of index c, found through the  *)
(* x of the bubbles its rows hold.                                         *)
CandidatesOfColumn(c) ==
    {b \in Candidates :
        \E r \in RowsOfColumn(c) :
            \E k \in 1..Len(rows[r].bubbles) : rows[r].bubbles[k].x = b.x}

(* C17: every column but the last (the column of index NUM_COLUMNS - 1)    *)
(* ends with exactly ceil(num_questions/NUM_COLUMNS) rows, and the last    *)
(* column with exactly max(1, num_questions - (NUM_COLUMNS - 1) * that)    *)
(* rows; the columns are the clusters found, at most NUM_COLUMNS of them.  *)
(* So when four columns are found and the remainder is at least 1, the     *)
(* last column holds the remainder and the rows number num_questions.      *)
C17_RowsPerColumn ==
    (pc = "grouped" /\ bubble_contours # <<>>) =>
        LET found == Min(NUM_COLUMNS, Len(ColumnClusters))
        IN  /\ \A r \in 1..Len(rows) : rows[r].column \in 0..(found - 1)
            /\ \A c \in 0..(found - 1) :
                   Cardinality(RowsOfColumn(c)) =
                       IF c = NUM_COLUMNS - 1
                       THEN Max(1, Remainder)
                       ELSE CeilPerColumn
            /\ (found = NUM_COLUMNS /\ Remainder >= 1) =>
                   /\ Cardinality(RowsOfColumn(NUM_COLUMNS - 1)) = Remainder
                   /\ Len(rows) = num_questions

(* Four columns found for a num_questions that NUM_COLUMNS does not        *)
(* divide and that leaves the last column a remainder of two rows or more, *)
(* fewer than the other columns get: the last column, clustered into more  *)
(* rows than that, is trimmed to the remainder and the first column is     *)
(* padded up to its target.                                                *)
C17_Witness ==
    /\ pc = "grouped"
    /\ num_questions % NUM_COLUMNS # 0
    /\ Remainder >= 2
    /\ Cardinality(RowsOfColumn(NUM_COLUMNS - 1)) = Remainder
    /\ Remainder < Cardinality(RowsOfColumn(0))
    /\ Cardinality(CandidatesOfColumn(NUM_COLUMNS - 1)) > Remainder
    /\ RowsOfColumn(NUM_COLUMNS - 1) \cap Placeholders = {}
    /\ RowsOfColumn(0) \cap Placeholders # {}

(* The last column padded up to a remainder of two rows or more.           *)
C17_LastPaddedReached ==
    /\ pc = "grouped"
    /\ Remainder >= 2
    /\ Cardinality(RowsOfColumn(NUM_COLUMNS - 1)) = Remainder
    /\ RowsOfColumn(NUM_COLUMNS - 1) \cap Placeholders # {}
    /\ RowsOfColumn(NUM_COLUMNS - 1) \ Placeholders # {}

(* The last column trimmed to one row where nothing is left for it.        *)
C17_ClampReached ==
    /\ pc = "grouped"
    /\ Remainder < 1
    /\ Cardinality(RowsOfColumn(NUM_COLUMNS - 1)) = 1
    /\ Cardinality(CandidatesOfColumn(NUM_COLUMNS - 1)) > 1

(* A column trimmed to its target: more rows clustered than it may keep.   *)
C17_TrimReached ==
    /\ pc = "grouped"
    /\ \E a, b \in Candidates :
           /\ a.x = b.x
           /\ a.y + ROW_TOLERANCE * 2 <= b.y
    /\ num_questions = 1

----------------------------------------------------------------------------
(* Spec's claims on placeholder rows.                                      *)

(* The rows of column c above row r.                                       *)
RowsAbove(r) == {i \in RowsOfColumn(rows[r].column) : i < r}

(* The number of rows column c is to end with.                             *)
TargetOf(c) ==
    IF c = NUM_COLUMNS - 1
    THEN Max(1, num_questions - (NUM_COLUMNS - 1) * CeilPerColumn)
    ELSE CeilPerColumn

(* The gap a placeholder at row r keeps from the row before it: the        *)
(* average gap of the rows above it, 30 when there is one row above it.    *)
PlaceholderGap(r) ==
    LET above == RowsAbove(r)
        first == CHOOSE i \in above : \A j \in above : i <= j
    IN  IF Cardinality(above) > 1
        THEN FloatDiv(FloatSub(center_double(rows[r - 1].center_y),
                               center_double(rows[first].center_y)),
                      FloatOfInt(Cardinality(above) - 1))
        ELSE FloatOfInt(30)

(* C18: a column with fewer clustered rows than its target is filled up to *)
(* the target with placeholder rows of no bubbles; each placeholder comes  *)
(* after all rows of its column that hold bubbles, at the center_y of the  *)
(* row before it plus the average inter-row gap (30 after a single row),   *)
(* so the rows with bubbles keep their places; the question of a           *)
(* placeholder row is reported with marked null and status blank.          *)
C18_PlaceholderRows ==
    (pc \in {"grouped", "marked", "scored", "done"} /\ num_questions >= 1) =>
        /\ \A r \in 1..Len(rows) :
               Cardinality(RowsOfColumn(rows[r].column)) = TargetOf(rows[r].column)
        /\ \A r \in Placeholders :
               /\ RowsAbove(r) # {}
               /\ r - 1 \in RowsAbove(r)
               /\ rows[r].center_y = FloatAdd(center_double(rows[r - 1].center_y),
                                              PlaceholderGap(r))
               /\ \A i \in RowsOfColumn(rows[r].column) :
                      i > r => i \in Placeholders
        /\ pc \in {"scored", "done"} =>
               \A r \in Placeholders :
                   r <= num_questions =>
                       /\ marked_answers[r] = None
                       /\ result.responses[r] = None
                       /\ result.detailed_responses[r].marked = None
                       /\ result.detailed_responses[r].status = "blank"

(* A report for a sheet with a column of two rows with bubbles, the lower  *)
(* one filled, followed by a placeholder one average gap below them; the   *)
(* filled row's question is reported with its letter, the placeholder's    *)
(* blank.                                                                  *)
C18_Witness ==
    /\ pc = "done"
    /\ \E r \in Placeholders :
           /\ r <= num_questions
           /\ Cardinality(RowsAbove(r)) = 2
           /\ RowsAbove(r) \cap Placeholders = {}
           /\ result.responses[r - 1] # None
           /\ result.detailed_responses[r].status = "blank"

(* A column of one row with bubbles followed by two placeholders.          *)
C18_TwoPlaceholdersReached ==
    /\ pc = "done"
    /\ \E r \in Placeholders :
           /\ r - 1 \in Placeholders
           /\ r <= num_questions

----------------------------------------------------------------------------
(* SpecFill's claims.                                                      *)

(* What the image shows under the analyzed bubble.                         *)
AnalyzedInk == gray[<<bubble_contours[1].x, bubble_contours[1].y>>]

(* C19: for a crop with pixels inside the contour the state is INVALID     *)
(* when the fill pattern is invalid, whatever the ratio; otherwise FILLED  *)
(* iff ratio > 0.60, PARTIAL iff 0.25 < ratio <= 0.60, BLANK iff           *)
(* ratio <= 0.25; the ratio is returned with the state. An empty crop or   *)
(* an empty contour mask gives (INVALID, 0).                               *)
C19_FillClassification ==
    pc = "analyzed" =>
        LET ink == AnalyzedInk
            state == result[1]
            ratio == result[2]
        IN  IF ink.size = 0 \/ ink.pixels = 0
            THEN state = INVALID /\ ratio = 0
            ELSE /\ ratio = ink.fill
                 /\ ~ink.valid => state = INVALID
                 /\ ink.valid =>
                        /\ state = FILLED <=> ink.fill > 600
                        /\ state = PARTIAL <=> (250 < ink.fill /\ ink.fill <= 600)
                        /\ state = BLANK <=> ink.fill <= 250

(* A valid pattern with ratio exactly 0.60 classified PARTIAL.             *)
C19_Witness ==
    /\ pc = "analyzed"
    /\ AnalyzedInk.valid
    /\ AnalyzedInk.fill = 600
    /\ result[1] = PARTIAL

(* Ratio exactly 0.25 classified BLANK, an invalid pattern above 0.60, and *)
(* the two empty cases.                                                    *)
C19_LowerThresholdReached ==
    pc = "analyzed" /\ AnalyzedInk.valid /\ AnalyzedInk.fill = 250 /\ result[1] = BLANK

C19_InvalidPatternReached ==
    pc = "analyzed" /\ ~AnalyzedInk.valid /\ AnalyzedInk.fill > 600 /\ result[1] = INVALID

C19_EmptyCropReached ==
    pc = "analyzed" /\ AnalyzedInk.size = 0 /\ result = <<INVALID, 0>>

C19_EmptyMaskReached ==
    pc = "analyzed" /\ AnalyzedInk.size > 0 /\ AnalyzedInk.pixels = 0
        /\ result = <<INVALID, 0>>

----------------------------------------------------------------------------
(* SpecFilter's claims.                                                    *)

(* The bounding boxes of a and b share more than 30% of the smaller box.   *)
SharesTooMuch(a, b) ==
    LET shared_x == Cardinality((a.x..(a.x + a.w - 1)) \cap (b.x..(b.x + b.w - 1)))
        shared_y == Cardinality((a.y..(a.y + a.h - 1)) \cap (b.y..(b.y + b.h - 1)))
    IN  10 * shared_x * shared_y > 3 * Min(a.w * a.h, b.w * b.h)

(* b's score is not above a's.                                             *)
ScoresAtLeast(a, b) == ~score_less(a, b)

(* C20: for more than NUM_CHOICES bubbles filter_overlapping_bubbles       *)
(* returns at most NUM_CHOICES of them, in descending score order, no two  *)
(* sharing more than 30% of the smaller bounding box, picked greedily: a   *)
(* bubble left out shares too much with a picked bubble that scores at     *)
(* least as high, or NUM_CHOICES bubbles scoring at least as high were     *)
(* picked. NUM_CHOICES bubbles or fewer are returned unchanged.            *)
C20_GreedyFilter ==
    pc = "filtered" =>
        LET picked == {result[i] : i \in 1..Len(result)}
        IN  IF Len(bubble_contours) <= NUM_CHOICES
            THEN result = bubble_contours
            ELSE /\ Len(result) <= NUM_CHOICES
                 /\ Cardinality(picked) = Len(result)
                 /\ picked \subseteq Candidates
                 /\ \A i, j \in 1..Len(result) :
                        i < j => /\ ~SharesTooMuch(result[i], result[j])
                                 /\ ScoresAtLeast(result[i], result[j])
                 /\ \A b \in Candidates \ picked :
                        \/ \E a \in picked :
                               SharesTooMuch(a, b) /\ ScoresAtLeast(a, b)
                        \/ /\ Len(result) = NUM_CHOICES
                           /\ \A a \in picked : ScoresAtLeast(a, b)

(* A row of more than NUM_CHOICES bubbles from which a bubble was left out *)
(* for its overlap while a bubble scoring lower was picked.                *)
C20_Witness ==
    /\ pc = "filtered"
    /\ Len(bubble_contours) > NUM_CHOICES
    /\ \E b \in Candidates :
           /\ \A i \in 1..Len(result) : result[i] # b
           /\ \E i \in 1..Len(result) :
                  score_less(result[i], b)

(* The filter stopping at NUM_CHOICES picks, and a contour without         *)
(* perimeter among the picks.                                              *)
C20_FullReached ==
    /\ pc = "filtered"
    /\ Len(bubble_contours) > NUM_CHOICES + 1
    /\ Len(result) = NUM_CHOICES

C20_ZeroPerimeterReached ==
    /\ pc = "filtered"
    /\ Len(bubble_contours) > NUM_CHOICES
    /\ \E i \in 1..Len(result) : result[i].contour.perimeter = 0

----------------------------------------------------------------------------
(* SpecShape's claims.                                                     *)

ValidatedShape == bubble_contours[1]

(* 0.4 < contour_area/ellipse_area < 1.6 for a fitted ellipse.             *)
EllipseRatioInRange ==
    /\ ~ValidatedShape.fit_raises
    /\ ValidatedShape.ellipse_area > 0
    /\ 2 * ValidatedShape.ellipse_area < 5 * ValidatedShape.area
    /\ 5 * ValidatedShape.area < 8 * ValidatedShape.ellipse_area

(* area/hull_area > 0.6                                                    *)
SolidityAboveBound ==
    /\ ValidatedShape.hull_area > 0
    /\ 5 * ValidatedShape.area > 3 * ValidatedShape.hull_area

(* C21 as claimed: a contour with 5 or more points is accepted only if     *)
(* 0.4 < contour_area/ellipse_area < 1.6 and rejected otherwise; the       *)
(* solidity test decides only for contours with fewer than 5 points. The   *)
(* code rejects every contour with fewer than 5 points and falls back to   *)
(* the solidity test when the ellipse test fails, so this fails.           *)
C21_EllipseTestDecides ==
    pc = "validated" =>
        /\ ValidatedShape.points >= 5 => (result <=> EllipseRatioInRange)
        /\ ValidatedShape.points < 5 => (result <=> SolidityAboveBound)

(* C21 as amended: a contour with fewer than 5 points is rejected; one     *)
(* with 5 or more is accepted when 0.4 < contour_area/ellipse_area < 1.6,  *)
(* and when that test fails it is accepted iff area/hull_area > 0.6; it is *)
(* rejected when fitting the ellipse raises.                               *)
C21_SolidityFallback ==
    pc = "validated" =>
        /\ ValidatedShape.points < 5 => ~result
        /\ (ValidatedShape.points >= 5 /\ ValidatedShape.fit_raises) => ~result
        /\ (ValidatedShape.points >= 5 /\ ~ValidatedShape.fit_raises) =>
               (result <=> (EllipseRatioInRange \/ SolidityAboveBound))

(* A contour of 5 or more points accepted by the solidity test after the   *)
(* ellipse test failed.                                                    *)
C21_Witness ==
    /\ pc = "validated"
    /\ ValidatedShape.points >= 5
    /\ ~ValidatedShape.fit_raises
    /\ ~EllipseRatioInRange
    /\ SolidityAboveBound
    /\ result

(* A contour of fewer than 5 points with solidity above 0.6, rejected.     *)
C21_FewPointsReached ==
    /\ pc = "validated"
    /\ ValidatedShape.points < 5
    /\ SolidityAboveBound
    /\ ~result

----------------------------------------------------------------------------
(* SpecPlaces' claims.                                                     *)

(* The choice place (1 for A .. NUM_CHOICES for E) a bubble is printed at. *)
ChoicePlaceOf(bubble) ==
    CHOOSE j \in 1..NUM_CHOICES : GridBubble(1, j).x = bubble.x

(* C22 as claimed: when a row has fewer than NUM_CHOICES detected bubbles, *)
(* the index resolved for its one FILLED bubble (or, with no FILLED, its   *)
(* one PARTIAL bubble) is that bubble's choice position on the sheet.      *)
(* The code numbers the detected bubbles by their place in the list and    *)
(* pads BLANK after them, so this fails when a bubble before the marked    *)
(* one went undetected.                                                    *)
C22_IndexIsChoicePosition ==
    pc = "marked" =>
        \A k \in 1..Len(rows[1].bubbles) :
            (\/ PlacesIn(1, FILLED) = {k}
             \/ (PlacesIn(1, FILLED) = {} /\ PlacesIn(1, PARTIAL) = {k})) =>
                marked_answers[1] = Some(ChoicePlaceOf(rows[1].bubbles[k]) - 1)

----------------------------------------------------------------------------
(* SpecResults' claims.                                                    *)

(* C23 as claimed: after any interleaving of concurrent save_result and    *)
(* publish_results requests, db.results holds at most one document per     *)
(* (examId, studentId) pair. Two requests that both run find_one before    *)
(* either writes both insert, so this fails.                               *)
C23_OneDocumentPerPair ==
    pc = "results" =>
        \A i, j \in 1..Len(db.results) :
            (/\ db.results[i].examId = db.results[j].examId
             /\ db.results[i].studentId = db.results[j].studentId) => i = j

----------------------------------------------------------------------------
(* SpecScoreKeys' claims.                                                  *)

(* C24 as claimed: a question whose outcome is MULTIPLE (-2) or            *)
(* AMBIGUOUS_PARTIAL (-3) never has status "correct" and never adds to     *)
(* score, whatever the key's characters. The code compares the outcome     *)
(* with ord(key) - ord('A') first, so a key character "?" (offset -2) or   *)
(* ">" (offset -3) makes such an outcome correct, and this fails.          *)
C24_InvalidOutcomeNeverCorrect ==
    pc = "scored" =>
        /\ \A i \in 1..num_questions :
               OutcomeOf(i) \in {Some(-2), Some(-3)} => StatusOf(i) # "correct"
        /\ result.score =
               Cardinality({i \in 1..num_questions :
                               /\ IsIndex(OutcomeOf(i))
                               /\ OutcomeOf(i)[1] = KeyIndex(i)})

----------------------------------------------------------------------------
(* process_omr_image's claim on the student fields.                        *)

(* C25 as claimed: once decoding, detection, grouping and scoring have     *)
(* succeeded, process_omr_image returns the report for every student_id,   *)
(* also one without '_'. For such an id student_id.split('_')[1] raises    *)
(* IndexError after scoring and the call fails, so this fails.             *)
C25_ScoredSheetReturned ==
    [][pc = "scored" => (pc' = "done" /\ error' = "")]_vars

----------------------------------------------------------------------------
(* SpecHandler's claims on the batch loop and on the error statuses.       *)

(* The upload positions (from 1) whose content type is an image, in upload *)
(* order.                                                                  *)
ImagePositions ==
    SelectSeq([i \in 1..Len(request.images) |-> i], IsImageUpload)

(* What process_omr_image does with the upload at position i of the batch. *)
BatchOutcome(i) ==
    process_omr_image(request.images[i].data,
                      build_answer_key(StoredSolution[1]),
                      StoredExam[1].numQuestions, <<"STUDENT", Pad3(i)>>)

(* The exam and its key are stored and agree in length.                    *)
ExamAndKeyChecksPass ==
    /\ StoredExam # None
    /\ StoredSolution # None
    /\ ~StoredKeyMismatch

(* C26 as claimed: in batch_process_answer_sheets, once the exam and key   *)
(* checks have passed, the response reports success and its results list   *)
(* holds exactly one entry per upload with an image content type, in       *)
(* upload order, each with student id STUDENT_<upload position>; the entry *)
(* is an error entry exactly when processing that sheet failed, and the    *)
(* sheets after a failed one are processed all the same. An upload without *)
(* a content type raises at line 697, outside the try of the sheet, and    *)
(* the batch is answered 500 without results, so this fails.               *)
C26_BatchIsolatesFailures ==
    (/\ pc = "responded"
     /\ request.handler = "batch"
     /\ ExamAndKeyChecksPass) =>
        /\ request.status = 200
        /\ request.body # None
        /\ request.body[1].success
        /\ Len(request.body[1].results) = Len(ImagePositions)
        /\ request.calls = Len(ImagePositions)
        /\ \A k \in 1..Len(ImagePositions) :
               LET entry == request.body[1].results[k]
                   outcome == BatchOutcome(ImagePositions[k])
               IN  /\ entry.studentId = <<"STUDENT", Pad3(ImagePositions[k])>>
                   /\ ("error" \in DOMAIN entry) <=> (outcome.error # "")
                   /\ outcome.error # "" =>
                          entry.error = <<"Processing failed: ", outcome.error>>
                   /\ outcome.error = "" =>
                          entry.responses = outcome.result.responses

(* The status the claim names for the request: 400 for an upload that is   *)
(* not an image or a key-length mismatch, 404 for a missing exam or key;   *)
(* 0 where it names none.                                                  *)
ClaimedStatus ==
    IF request.images[1].content_type = None THEN 0
    ELSE IF ~IsImageUpload(1) THEN 400
    ELSE IF StoredExam = None \/ StoredSolution = None THEN 404
    ELSE IF StoredKeyMismatch THEN 400
    ELSE 0

(* C27 as claimed: the statuses raised inside process_answer_sheet reach   *)
(* the client unchanged: 400 for a non-image upload or a key-length        *)
(* mismatch, 404 for a missing exam or answer key, never a 500. The        *)
(* except Exception clause of the handler catches each HTTPException and   *)
(* answers 500, so this fails.                                             *)
C27_RaisedStatusReachesClient ==
    (/\ pc = "responded"
     /\ request.handler = "process"
     /\ ClaimedStatus # 0) =>
        /\ request.status = ClaimedStatus
        /\ request.status # 500

====
